---- MODULE Spec2Model ----
(***************************************************************************)
(* A model of git-fission's patch surgery: the unified-diff parser, the    *)
(* hunk-level and line-level patch reconstructors, the patch fixer and the *)
(* content-diff synthesizer, with the split pipeline that drives them.     *)
(*                                                                         *)
(* Text.  A JavaScript string is modelled by the sequence of its segments  *)
(* between '\n' characters, so s.split('\n') is the sequence itself, a     *)
(* string ending in '\n' has an empty last segment, and the empty string   *)
(* is the one-segment text <<EmptyLine>>.  A segment (a line) is a record  *)
(* [k, t, os, oc, ns, nc]: k is the prefix class that the code's           *)
(* startsWith / regular-expression tests distinguish, t the rest of the    *)
(* line, and os, oc, ns, nc the numbers of a hunk header.                  *)
(***************************************************************************)
EXTENDS Integers, Sequences, FiniteSets, TLC

\* ------------------------------------------------------------------ bounds
MaxFiles == 2
MaxHunks == 3
MaxCommits == 2

\* ------------------------------------------------------------------- lines
Absent == 0 - 1

Ln(k, t) == [k |-> k, t |-> t, os |-> 0, oc |-> 0, ns |-> 0, nc |-> 0]

Hdr(os, oc, ns, nc, t) == [k |-> "@@", t |-> t, os |-> os, oc |-> oc, ns |-> ns, nc |-> nc]

EmptyLine == Ln("", "")
Ctx(t) == Ln(" ", t)
Add(t) == Ln("+", t)
Del(t) == Ln("-", t)
BadHdr == Ln("@@bad", "")
GitLine(p) == Ln("diff --git", p)
NewFileMode == Ln("new file mode", "100644")
IndexLine == Ln("index", "")
MinusDevNull == Ln("--- /dev/null", "")
MinusA(p) == Ln("--- a/", p)
PlusB(p) == Ln("+++ b/", p)

\* line.startsWith(prefix), for the prefixes the code tests
StartsWith(line, prefix) ==
  CASE prefix = "+" -> line.k \in {"+", "+++ b/"}
    [] prefix = "-" -> line.k \in {"-", "--- a/", "--- /dev/null"}
    [] prefix = " " -> line.k = " "
    [] prefix = "+++" -> line.k = "+++ b/"
    [] prefix = "@@" -> line.k \in {"@@", "@@bad"}
    [] prefix = "diff --git" -> line.k = "diff --git"
    [] prefix = "new file mode" -> line.k = "new file mode"
    [] OTHER -> FALSE

\* the concatenation of a sequence of sequences
Flatten(seqs) ==
  LET RECURSIVE Cat(_)
      Cat(i) == IF i > Len(seqs) THEN <<>> ELSE seqs[i] \o Cat(i + 1)
  IN Cat(1)

\* parts.join('\n') for parts that are texts: the segments of the parts, in
\* order; the join of no part is the empty string
JoinTexts(parts) ==
  IF Len(parts) = 0 THEN <<EmptyLine>> ELSE Flatten(parts)

\* lines.join('\n') for a list of single lines
JoinLines(ls) == IF Len(ls) = 0 THEN <<EmptyLine>> ELSE ls

\* s + '\n'
PlusNewline(text) == Append(text, EmptyLine)

Sum(f, S) ==
  LET RECURSIVE Acc(_)
      Acc(T) == IF T = {} THEN 0
                ELSE LET x == CHOOSE y \in T : TRUE IN f[x] + Acc(T \ {x})
  IN Acc(S)

CountKinds(ls, kinds) == Cardinality({i \in 1..Len(ls) : ls[i].k \in kinds})


\* the elements of a finite set of integers, ascending
RECURSIVE SortedSeq(_)
SortedSeq(S) ==
  IF S = {} THEN <<>>
  ELSE LET m == CHOOSE x \in S : \A y \in S : x <= y
       IN <<m>> \o SortedSeq(S \ {m})

\* ----------------------------------------------------- the commit's change
\* What `git show <hash> --format= -p` prints for a commit (getCommitInfo),
\* and the content of the parent commit's files.  A change is a sequence of
\* file changes [path, isNew, hunks]; a hunk is [body, label, bad].
Paths == <<"f1", "f2", "f3">>
Filler == "a"
GapLines == 1

OldCountOf(body) == CountKinds(body, {" ", "-"})
NewCountOf(body) == CountKinds(body, {" ", "+"})

\* a unified-diff range: a count of 1 is not printed, and an empty range is
\* printed with the line before it
PrintStart(start, count) == IF count = 0 THEN start - 1 ELSE start
PrintCount(count) == IF count = 1 THEN Absent ELSE count

RECURSIVE GitHunkLines(_, _, _, _, _)
GitHunkLines(hunks, i, oldPos, delta, gap) ==
  IF i > Len(hunks) THEN <<>>
  ELSE LET h == hunks[i]
           oc == OldCountOf(h.body)
           nc == NewCountOf(h.body)
           start == oldPos + gap
           header == IF h.bad THEN BadHdr
                     ELSE Hdr(PrintStart(start, oc), PrintCount(oc),
                              PrintStart(start + delta, nc), PrintCount(nc), h.label)
       IN <<header>> \o h.body
            \o GitHunkLines(hunks, i + 1, start + oc, delta + nc - oc, gap)

GitFileHeader(fc) ==
  IF fc.isNew
  THEN <<GitLine(fc.path), NewFileMode, IndexLine, MinusDevNull, PlusB(fc.path)>>
  ELSE <<GitLine(fc.path), IndexLine, MinusA(fc.path), PlusB(fc.path)>>

GitFileDiff(fc) ==
  GitFileHeader(fc) \o GitHunkLines(fc.hunks, 1, 1, 0, IF fc.isNew THEN 0 ELSE GapLines)

\* (result.stdout || '').trim(): the output loses the '\n' at its end, and with
\* it every last line that holds only white space, such as the ' ' that git
\* prints for an empty context line
RECURSIVE TrimEnd(_)
TrimEnd(text) ==
  IF Len(text) > 1 /\ text[Len(text)] \in {Ctx(""), EmptyLine}
  THEN TrimEnd(SubSeq(text, 1, Len(text) - 1))
  ELSE text

GitShow(change) == TrimEnd(JoinTexts([i \in 1..Len(change) |-> GitFileDiff(change[i])]))

FillerLines == [i \in 1..GapLines |-> Filler]

OldSide(body) ==
  LET keep == SelectSeq(body, LAMBDA l : l.k \in {" ", "-"})
  IN [i \in 1..Len(keep) |-> keep[i].t]

NewSide(body) ==
  LET keep == SelectSeq(body, LAMBDA l : l.k \in {" ", "+"})
  IN [i \in 1..Len(keep) |-> keep[i].t]

RECURSIVE ParentLines(_, _)
ParentLines(hunks, i) ==
  IF i > Len(hunks) THEN FillerLines
  ELSE FillerLines \o OldSide(hunks[i].body) \o ParentLines(hunks, i + 1)

RECURSIVE ChildLines(_, _)
ChildLines(hunks, i) ==
  IF i > Len(hunks) THEN FillerLines
  ELSE FillerLines \o NewSide(hunks[i].body) \o ChildLines(hunks, i + 1)

NoFile == [exists |-> FALSE, lines |-> <<>>]
File(ls) == [exists |-> TRUE, lines |-> ls]

\* the work tree of the parent commit and of the commit itself
TreeOf(change, content) ==
  [p \in {Paths[i] : i \in 1..Len(Paths)} |->
     IF \E i \in 1..Len(change) : change[i].path = p
     THEN content[CHOOSE i \in 1..Len(change) : change[i].path = p]
     ELSE NoFile]

ParentTree(change) ==
  TreeOf(change, [i \in 1..Len(change) |->
                    IF change[i].isNew THEN NoFile
                    ELSE File(ParentLines(change[i].hunks, 1))])

CommitTree(change) ==
  TreeOf(change, [i \in 1..Len(change) |->
                    IF change[i].isNew THEN File(NewSide(change[i].hunks[1].body))
                    ELSE File(ChildLines(change[i].hunks, 1))])

\* ------------------------------------------------------ parseDiffIntoHunks
\* diff.split(/(?=^diff --git)/m).filter(Boolean): the text is cut before
\* every line that starts with 'diff --git'; a piece that is not the last one
\* ends in '\n', so its split('\n') has an empty last segment
FileDiffPieces(diff) ==
  LET starts == SortedSeq({i \in 1..Len(diff) : StartsWith(diff[i], "diff --git")})
      cuts == IF Len(starts) > 0 /\ starts[1] = 1 THEN starts ELSE <<1>> \o starts
      Piece(j) == IF j = Len(cuts) THEN SubSeq(diff, cuts[j], Len(diff))
                  ELSE Append(SubSeq(diff, cuts[j], cuts[j + 1] - 1), EmptyLine)
  IN IF diff = <<EmptyLine>> THEN <<>> ELSE [j \in 1..Len(cuts) |-> Piece(j)]

\* the regular expression /@@ -(\d+)/ of the parser
StartLineOf(header) == IF header.k = "@@" THEN header.os ELSE 0

\* one file's piece: [ok, filePath, fileHeader, hunks], ids from firstId on
ParseFileDiff(lines, firstId) ==
  LET gitLine == lines[1]
      plus == {i \in 1..Len(lines) : StartsWith(lines[i], "+++")}
      headerEndIndex == IF plus = {} THEN 1 ELSE CHOOSE i \in plus : \A j \in plus : i <= j
      marks == SortedSeq({i \in (headerEndIndex + 1)..Len(lines) : StartsWith(lines[i], "@@")})
      HunkAt(j) ==
        LET from == marks[j] + 1
            to == IF j = Len(marks) THEN Len(lines) ELSE marks[j + 1] - 1
            hunkContent == JoinLines(SubSeq(lines, from, to))
        IN [id |-> firstId + j - 1,
            filePath |-> gitLine.t,
            header |-> lines[marks[j]],
            content |-> hunkContent,
            fullHunk |-> <<lines[marks[j]]>> \o hunkContent,
            startLine |-> StartLineOf(lines[marks[j]])]
  IN [ok |-> gitLine.k = "diff --git",
      filePath |-> gitLine.t,
      fileHeader |-> SubSeq(lines, 1, headerEndIndex),
      hunks |-> [j \in 1..Len(marks) |-> HunkAt(j)]]

RECURSIVE ParsePieces(_, _, _)
ParsePieces(pieces, i, hunkId) ==
  IF i > Len(pieces) THEN <<>>
  ELSE LET f == ParseFileDiff(pieces[i], hunkId)
       IN IF ~f.ok THEN ParsePieces(pieces, i + 1, hunkId)
          ELSE IF Len(f.hunks) > 0
               THEN <<[filePath |-> f.filePath, fileHeader |-> f.fileHeader, hunks |-> f.hunks]>>
                      \o ParsePieces(pieces, i + 1, hunkId + Len(f.hunks))
               ELSE ParsePieces(pieces, i + 1, hunkId)

parseDiffIntoHunks(diff) == ParsePieces(FileDiffPieces(diff), 1, 0)

AllHunks(files) == Flatten([i \in 1..Len(files) |-> files[i].hunks])

TotalHunks(files) ==
  LET RECURSIVE N(_)
      N(i) == IF i > Len(files) THEN 0 ELSE Len(files[i].hunks) + N(i + 1)
  IN N(1)

\* --------------------------------------------------- rebuildPatchFromHunks
\* hunk.header.match(/@@ -(\d+),?(\d*) \+(\d+),?(\d*) @@(.*)/)
HeaderMatches(header) == header.k = "@@"

\* headerMatch[n] ? parseInt(headerMatch[n]) : 1
CountOr1(c) == IF c = Absent THEN 1 ELSE c

\* the parts pushed for the selected hunks of one file, from hunk i on
RECURSIVE RebuildHunksMutUnselected(_, _, _, _)
RebuildHunksMutUnselected(hunks, hunkSet, i, cumulativeOffset) ==
  IF i > Len(hunks) THEN <<>>
  ELSE LET hunk == hunks[i]
           oldCount == CountOr1(hunk.header.oc)
           newCount == CountOr1(hunk.header.nc)
           newHeader == Hdr(hunk.header.os, oldCount, hunk.header.os + cumulativeOffset,
                            newCount, hunk.header.t)
       IN IF ~HeaderMatches(hunk.header)
          THEN (IF hunk.id \in hunkSet THEN <<hunk.fullHunk>> ELSE <<>>)
                 \o RebuildHunksMutUnselected(hunks, hunkSet, i + 1, cumulativeOffset)
          ELSE (IF hunk.id \in hunkSet THEN <<(<<newHeader>> \o hunk.content)>> ELSE <<>>)
                 \o RebuildHunksMutUnselected(hunks, hunkSet, i + 1,
                                              cumulativeOffset + (newCount - oldCount))

RECURSIVE RebuildHunks(_, _, _)
RebuildHunks(selectedHunks, i, cumulativeOffset) ==
  IF i > Len(selectedHunks) THEN <<>>
  ELSE LET hunk == selectedHunks[i]
           oldStart == hunk.header.os
           oldCount == CountOr1(hunk.header.oc)
           newCount == CountOr1(hunk.header.nc)
           suffix == hunk.header.t
           adjustedNewStart == oldStart + cumulativeOffset
           newHeader == Hdr(oldStart, oldCount, adjustedNewStart, newCount, suffix)
       IN IF ~HeaderMatches(hunk.header)
          THEN <<hunk.fullHunk>> \o RebuildHunks(selectedHunks, i + 1, cumulativeOffset)
          ELSE <<(<<newHeader>> \o hunk.content)>>
                 \o RebuildHunks(selectedHunks, i + 1, cumulativeOffset + (newCount - oldCount))

RebuildFileMutUnselected(file, hunkSet) ==
  LET selectedHunks == SelectSeq(file.hunks, LAMBDA h : h.id \in hunkSet)
  IN IF Len(selectedHunks) = 0 THEN <<>>
     ELSE <<file.fileHeader>> \o RebuildHunksMutUnselected(file.hunks, hunkSet, 1, 0)

\* the parts pushed for one file
RebuildFile(file, hunkSet) ==
  LET selectedHunks == SelectSeq(file.hunks, LAMBDA h : h.id \in hunkSet)
  IN IF Len(selectedHunks) = 0 THEN <<>>
     ELSE <<file.fileHeader>> \o RebuildHunks(selectedHunks, 1, 0)

\* hunkIds is handed over as the set the code makes of the list
rebuildPatchFromHunks(files, hunkIds) ==
  LET patchParts == Flatten([i \in 1..Len(files) |-> RebuildFile(files[i], hunkIds)])
  IN PlusNewline(JoinTexts(patchParts))

\* --------------------------------------------------------------- git apply
\* runGit(['apply', '--check', patchFile]) and runGit(['apply', patchFile]):
\* what git's apply does with a patch text on the work tree.
\* The lines of the patch file: a text that ends in '\n' has them all
\* terminated; otherwise the last one is not
PatchLines(text) == IF text[Len(text)] = EmptyLine THEN SubSeq(text, 1, Len(text) - 1) ELSE text
Terminated(text) == text[Len(text)] = EmptyLine

\* one fragment, read from line i (the line after its header) with the counts
\* of its header still to be read: [ok, next, lines]
RECURSIVE ReadFragment(_, _, _, _, _)
ReadFragment(ls, i, oldlines, newlines, acc) ==
  IF oldlines = 0 /\ newlines = 0
  THEN [ok |-> \E j \in 1..Len(acc) : acc[j].k \in {"+", "-"}, next |-> i, lines |-> acc]
  ELSE IF i > Len(ls) THEN [ok |-> FALSE, next |-> i, lines |-> acc]
  ELSE LET l == ls[i] IN
       CASE l.k \in {" ", ""} /\ oldlines > 0 /\ newlines > 0 ->
              ReadFragment(ls, i + 1, oldlines - 1, newlines - 1, Append(acc, Ctx(l.t)))
         [] l.k = "-" /\ oldlines > 0 ->
              ReadFragment(ls, i + 1, oldlines - 1, newlines, Append(acc, l))
         [] l.k = "+" /\ newlines > 0 ->
              ReadFragment(ls, i + 1, oldlines, newlines - 1, Append(acc, l))
         [] OTHER -> [ok |-> FALSE, next |-> i, lines |-> acc]

\* the fragments that follow one another from line i on: [ok, next, frags]
RECURSIVE ReadFragments(_, _, _)
ReadFragments(ls, i, acc) ==
  IF i > Len(ls) \/ ls[i].k # "@@" THEN [ok |-> TRUE, next |-> i, frags |-> acc]
  ELSE LET h == ls[i]
           f == ReadFragment(ls, i + 1, CountOr1(h.oc), CountOr1(h.nc), <<>>)
       IN IF ~f.ok THEN [ok |-> FALSE, next |-> i, frags |-> acc]
          ELSE ReadFragments(ls, f.next,
                 Append(acc, [oldpos |-> h.os, newpos |-> h.ns, lines |-> f.lines]))

ExtendedHeaderKinds == {"new file mode", "index", "--- /dev/null", "--- a/", "+++ b/"}

RECURSIVE HeaderEnd(_, _)
HeaderEnd(ls, i) ==
  IF i <= Len(ls) /\ ls[i].k \in ExtendedHeaderKinds THEN HeaderEnd(ls, i + 1) ELSE i

\* the file patches of the input: [ok, patches]; lines that belong to no
\* patch are skipped, a fragment without a file header is an error
RECURSIVE ReadPatches(_, _, _)
ReadPatches(ls, i, acc) ==
  IF i > Len(ls) THEN [ok |-> Len(acc) > 0, patches |-> acc]
  ELSE IF ls[i].k = "@@" THEN [ok |-> FALSE, patches |-> acc]
  ELSE IF ls[i].k # "diff --git" THEN ReadPatches(ls, i + 1, acc)
  ELSE LET e == HeaderEnd(ls, i + 1)
           isNew == \E j \in (i + 1)..(e - 1) : ls[j].k \in {"new file mode", "--- /dev/null"}
           fr == ReadFragments(ls, e, <<>>)
           oldTotal == Sum([j \in 1..Len(fr.frags) |-> OldCountOf(fr.frags[j].lines)],
                           1..Len(fr.frags))
       IN IF ~fr.ok \/ Len(fr.frags) = 0 \/ (isNew /\ oldTotal > 0)
          THEN [ok |-> FALSE, patches |-> acc]
          ELSE ReadPatches(ls, fr.next,
                 Append(acc, [path |-> ls[i].t, isNew |-> isNew, frags |-> fr.frags]))

LeadingContext(lines) ==
  LET changed == {j \in 1..Len(lines) : lines[j].k # " "}
  IN IF changed = {} THEN Len(lines) ELSE (CHOOSE j \in changed : \A m \in changed : j <= m) - 1

TrailingContext(lines) ==
  LET changed == {j \in 1..Len(lines) : lines[j].k # " "}
  IN IF changed = {} THEN Len(lines)
     ELSE Len(lines) - (CHOOSE j \in changed : \A m \in changed : j >= m)

Abs(x) == IF x < 0 THEN 0 - x ELSE x

\* find_pos: the place (a count of lines before it) where the fragment's old
\* side is found, tried from the line the header's new-start names outwards,
\* forwards first; -1 when there is none
FindPos(img, preimage, frag) ==
  LET match_beginning == frag.oldpos <= 1
      match_end == TrailingContext(frag.lines) = 0
      pos == IF frag.newpos > 0 THEN frag.newpos - 1 ELSE 0
      want == IF match_beginning THEN 0
              ELSE IF match_end THEN Len(img) - Len(preimage)
              ELSE pos
      line == IF want < 0 \/ want > Len(img) THEN Len(img) ELSE want
      Fits(p) == /\ p + Len(preimage) <= Len(img)
                 /\ match_end => p + Len(preimage) = Len(img)
                 /\ match_beginning => p = 0
                 /\ \A j \in 1..Len(preimage) : img[p + j] = preimage[j]
      found == {p \in 0..Len(img) : Fits(p)}
      Before(p, q) == \/ Abs(p - line) < Abs(q - line)
                      \/ Abs(p - line) = Abs(q - line) /\ p >= q
  IN IF found = {} THEN 0 - 1 ELSE CHOOSE p \in found : \A q \in found : Before(p, q)

\* the fragments applied one after another to the image: [ok, lines]
RECURSIVE ApplyFragments(_, _, _)
ApplyFragments(img, frags, i) ==
  IF i > Len(frags) THEN [ok |-> TRUE, lines |-> img]
  ELSE LET preimage == OldSide(frags[i].lines)
           postimage == NewSide(frags[i].lines)
           at == FindPos(img, preimage, frags[i])
       IN IF at < 0 THEN [ok |-> FALSE, lines |-> img]
          ELSE ApplyFragments(SubSeq(img, 1, at) \o postimage
                                \o SubSeq(img, at + Len(preimage) + 1, Len(img)),
                              frags, i + 1)

RECURSIVE ApplyPatches(_, _, _)
ApplyPatches(tree, patches, i) ==
  IF i > Len(patches) THEN [ok |-> TRUE, tree |-> tree]
  ELSE LET p == patches[i]
           r == ApplyFragments(tree[p.path].lines, p.frags, 1)
       IN IF p.isNew = tree[p.path].exists \/ ~r.ok THEN [ok |-> FALSE, tree |-> tree]
          ELSE ApplyPatches([tree EXCEPT ![p.path] = File(r.lines)], patches, i + 1)

\* [ok, tree]: whether the patch applies to the tree, and the tree it leaves;
\* git apply changes nothing when a part of the patch does not apply
GitApply(tree, text) ==
  LET parsed == ReadPatches(PatchLines(text), 1, <<>>)
  IN IF ~Terminated(text) \/ ~parsed.ok THEN [ok |-> FALSE, tree |-> tree]
     ELSE IF ~ApplyPatches(tree, parsed.patches, 1).ok THEN [ok |-> FALSE, tree |-> tree]
     ELSE ApplyPatches(tree, parsed.patches, 1)

\* -------------------------------------------------- the hunk-level pipeline
VARIABLES
  pc,              \* where the split of the commit stands
  diff,            \* commit.diff, the text of the commit's change
  repo,            \* the work trees of the commit's parent and of the commit
  classification,  \* the oracle's answer to classifyHunks
  plan,            \* the SplitPlan of generateSplitPlan
  tree,            \* the work tree
  created,         \* how many commits executeSplit has created
  patchFiles,      \* the patch files executeSplit has saved in its tmpDir
  lineDiff,        \* the diff text given to parseDiffWithLines
  calls,           \* the calls of rebuildPatchFromLineIds made so far, in order
  createdFiles,    \* the createdFiles set the calls share
  patchText,       \* the text given to validateAndFixPatch
  fixRuns,         \* the results of the runs of validateAndFixPatch so far
  synthArgs,       \* the arguments of generateUnifiedDiff
  synthOut,        \* what generateUnifiedDiff returned
  retryArgs,       \* the arguments maxRetries and dryRun of splitCommit
  attempt,         \* the loop counter of splitCommit
  lastErrors,      \* the lastErrors of splitCommit
  requests,        \* the split-plan requests sent so far and what came of each
  retryPlan,       \* the plan of splitCommit
  retryPc,         \* where splitCommit stands
  gitLog,          \* the git commands executeSplit has run for splitCommit
  classifyArgs,    \* the arguments of classifyHunkLines and the oracle's response
  classifyOut,     \* what classifyHunkLines returned
  batchArgs,       \* the arguments of classifyAllHunks
  batchStart,      \* the loop counter i of classifyAllHunks
  inFlight,        \* the hunks whose oracle request has no response yet
  batchResults,    \* the settled promises of the batch under Promise.all
  results,         \* the results of classifyAllHunks
  phase,           \* where lineLevelSplit stands
  overtaken,       \* whether a request completed before one of an earlier hunk
  parseArg,        \* the text given to parseDiffIntoHunks
  parseOut,        \* what parseDiffIntoHunks returned
  refArgs,         \* the commit that commitRef names and the plan of its split
  history,         \* the commits of the branch, the oldest first
  refPc,           \* where the split of the named commit stands
  assembleArgs,    \* the files and commitChanges given to buildPatches
  assembleOut,     \* what buildPatches returned
  assemblePc,      \* where splitCommitLineLevel stands
  assembleLog      \* the git commands executeSplit has run for it

hunkVars == <<pc, diff, repo, classification, plan, tree, created, patchFiles>>
lineVars == <<lineDiff, calls, createdFiles>>
fixVars == <<patchText, fixRuns>>
synthVars == <<synthArgs, synthOut>>
retryVars == <<retryArgs, attempt, lastErrors, requests, retryPlan, retryPc, gitLog>>
classifyVars == <<classifyArgs, classifyOut>>
batchVars == <<batchArgs, batchStart, inFlight, batchResults, results, phase, overtaken>>
parseVars == <<parseArg, parseOut>>
refVars == <<refArgs, history, refPc>>
assembleVars == <<assembleArgs, assembleOut, assemblePc, assembleLog>>
vars == <<hunkVars, lineVars, fixVars, synthVars, retryVars, classifyVars, batchVars,
          parseVars, refVars, assembleVars>>

\* the variables a part of the program does not touch
hunkOthers == <<lineVars, fixVars, synthVars, retryVars, classifyVars, batchVars,
    parseVars, refVars, assembleVars>>
lineOthers == <<hunkVars, fixVars, synthVars, retryVars, classifyVars, batchVars,
    parseVars, refVars, assembleVars>>
fixOthers == <<hunkVars, lineVars, synthVars, retryVars, classifyVars, batchVars,
    parseVars, refVars, assembleVars>>
synthOthers == <<hunkVars, lineVars, fixVars, retryVars, classifyVars, batchVars,
    parseVars, refVars, assembleVars>>
retryOthers == <<hunkVars, lineVars, fixVars, synthVars, classifyVars, batchVars,
    parseVars, refVars, assembleVars>>
classifyOthers == <<hunkVars, lineVars, fixVars, synthVars, retryVars, batchVars,
    parseVars, refVars, assembleVars>>
batchOthers == <<hunkVars, lineVars, fixVars, synthVars, retryVars, classifyVars,
    parseVars, refVars, assembleVars>>
parseOthers == <<hunkVars, lineVars, fixVars, synthVars, retryVars, classifyVars,
    batchVars, refVars, assembleVars>>
refOthers == <<hunkVars, lineVars, fixVars, synthVars, retryVars, classifyVars,
    batchVars, parseVars, assembleVars>>
assembleOthers == <<hunkVars, lineVars, fixVars, synthVars, retryVars, classifyVars,
    batchVars, parseVars, refVars>>

\* the variables of a part of the program that a run does not exercise
HunkIdle ==
  /\ pc = "idle" /\ diff = <<>> /\ repo = <<>> /\ classification = <<>>
  /\ plan = <<>> /\ tree = <<>> /\ created = 0 /\ patchFiles = <<>>
LineIdle == lineDiff = <<>> /\ calls = <<>> /\ createdFiles = {}
FixIdle == patchText = <<>> /\ fixRuns = <<>>
SynthIdle == synthArgs = <<>> /\ synthOut = <<>>
RetryIdle ==
  /\ retryArgs = <<>> /\ attempt = 0 /\ lastErrors = <<>> /\ requests = <<>>
  /\ retryPlan = <<>> /\ retryPc = "idle" /\ gitLog = <<>>
ClassifyIdle == classifyArgs = <<>> /\ classifyOut = <<>>
BatchIdle ==
  /\ batchArgs = <<>> /\ batchStart = 0 /\ inFlight = {} /\ batchResults = <<>>
  /\ results = <<>> /\ phase = "idle" /\ overtaken = FALSE
ParseIdle == parseArg = <<>> /\ parseOut = <<>>
RefIdle == refArgs = <<>> /\ history = <<>> /\ refPc = "idle"
AssembleIdle ==
  /\ assembleArgs = <<>> /\ assembleOut = <<>> /\ assemblePc = "idle" /\ assembleLog = <<>>

HunkOthersIdle ==
  LineIdle /\ FixIdle /\ SynthIdle /\ RetryIdle /\ ClassifyIdle /\ BatchIdle /\
    ParseIdle /\ RefIdle /\ AssembleIdle
LineOthersIdle ==
  HunkIdle /\ FixIdle /\ SynthIdle /\ RetryIdle /\ ClassifyIdle /\ BatchIdle /\
    ParseIdle /\ RefIdle /\ AssembleIdle
FixOthersIdle ==
  HunkIdle /\ LineIdle /\ SynthIdle /\ RetryIdle /\ ClassifyIdle /\ BatchIdle /\
    ParseIdle /\ RefIdle /\ AssembleIdle
SynthOthersIdle ==
  HunkIdle /\ LineIdle /\ FixIdle /\ RetryIdle /\ ClassifyIdle /\ BatchIdle /\
    ParseIdle /\ RefIdle /\ AssembleIdle
RetryOthersIdle ==
  HunkIdle /\ LineIdle /\ FixIdle /\ SynthIdle /\ ClassifyIdle /\ BatchIdle /\
    ParseIdle /\ RefIdle /\ AssembleIdle
ClassifyOthersIdle ==
  HunkIdle /\ LineIdle /\ FixIdle /\ SynthIdle /\ RetryIdle /\ BatchIdle /\
    ParseIdle /\ RefIdle /\ AssembleIdle
BatchOthersIdle ==
  HunkIdle /\ LineIdle /\ FixIdle /\ SynthIdle /\ RetryIdle /\ ClassifyIdle /\
    ParseIdle /\ RefIdle /\ AssembleIdle
ParseOthersIdle ==
  HunkIdle /\ LineIdle /\ FixIdle /\ SynthIdle /\ RetryIdle /\ ClassifyIdle /\
    BatchIdle /\ RefIdle /\ AssembleIdle
RefOthersIdle ==
  HunkIdle /\ LineIdle /\ FixIdle /\ SynthIdle /\ RetryIdle /\ ClassifyIdle /\
    BatchIdle /\ ParseIdle /\ AssembleIdle
AssembleOthersIdle ==
  HunkIdle /\ LineIdle /\ FixIdle /\ SynthIdle /\ RetryIdle /\ ClassifyIdle /\
    BatchIdle /\ ParseIdle /\ RefIdle

ShapeAdd == [body |-> <<Ctx("a"), Add("b"), Ctx("a")>>, label |-> "", bad |-> FALSE]
ShapeDel == [body |-> <<Ctx("a"), Del("b"), Ctx("a")>>, label |-> " fn", bad |-> FALSE]
ShapeOne == [body |-> <<Add("b"), Ctx("a")>>, label |-> "", bad |-> FALSE]
ShapeBad == [body |-> <<Ctx("a"), Add("a"), Ctx("b")>>, label |-> "", bad |-> TRUE]
ShapeNew == [body |-> <<Add("a"), Add("b")>>, label |-> "", bad |-> FALSE]
Shapes == {ShapeAdd, ShapeDel, ShapeOne, ShapeBad}

\* the changes of one file with n hunks
FileChanges(path, n) ==
  {[path |-> path, isNew |-> FALSE, hunks |-> hs] : hs \in [1..n -> Shapes]}
    \cup (IF n = 1 THEN {[path |-> path, isNew |-> TRUE, hunks |-> <<ShapeNew>>]} ELSE {})

\* the changes of at most MaxFiles files with at most MaxHunks hunks in all
RECURSIVE ChangesFrom(_, _)
ChangesFrom(fileNo, hunksLeft) ==
  IF fileNo > MaxFiles \/ hunksLeft = 0 THEN {<<>>}
  ELSE {<<>>} \cup
       UNION {{<<fc>> \o rest : fc \in FileChanges(Paths[fileNo], n),
                                rest \in ChangesFrom(fileNo + 1, hunksLeft - n)}
              : n \in 1..hunksLeft}

Changes == ChangesFrom(1, MaxHunks) \ {<<>>}

NoClassification == [ok |-> FALSE, commits |-> <<>>]
NoPlan == [ok |-> FALSE, splits |-> <<>>]

\* what the oracle may answer for n hunks: up to MaxCommits commits, each with
\* any hunk ids (an id is missing, repeated, or the unknown id n), or nothing
OracleAnswers(n) ==
  {NoClassification} \cup
  {[ok |-> TRUE, commits |-> cs] :
     cs \in UNION {[1..k -> SUBSET (0..n)] : k \in 1..MaxCommits}}

Init ==
  /\ pc = "start"
  /\ \E change \in Changes :
       /\ diff = GitShow(change)
       /\ repo = [parent |-> ParentTree(change), commit |-> CommitTree(change)]
       /\ tree = CommitTree(change)
  /\ classification = NoClassification
  /\ plan = NoPlan
  /\ created = 0
  /\ patchFiles = <<>>
  /\ HunkOthersIdle

\* generateSplitPlan: parse, ask the oracle, rebuild one patch per commit
GenerateSplitPlan ==
  /\ pc = "start"
  /\ LET files == parseDiffIntoHunks(diff)
         totalHunks == TotalHunks(files)
     IN \E answer \in OracleAnswers(totalHunks) :
          /\ classification' = answer
          /\ plan' = IF totalHunks = 0 \/ ~answer.ok THEN NoPlan
                     ELSE [ok |-> TRUE,
                           splits |-> [c \in 1..Len(answer.commits) |->
                                         rebuildPatchFromHunks(files, answer.commits[c])]]
  /\ pc' = "planned"
  /\ UNCHANGED <<diff, repo, tree, created, patchFiles>>
  /\ UNCHANGED hunkOthers

\* splitCommit: no plan is a failure, fewer than two splits is an atomic commit
NoSplit ==
  /\ pc = "planned"
  /\ ~plan.ok \/ Len(plan.splits) < 2
  /\ pc' = IF ~plan.ok THEN "failed" ELSE "atomic"
  /\ UNCHANGED <<diff, repo, classification, plan, tree, created, patchFiles>>
  /\ UNCHANGED hunkOthers

\* executeSplit: the patches are saved in files of a fresh directory, then the
\* hard reset removes the commit
HardReset ==
  /\ pc = "planned"
  /\ plan.ok /\ Len(plan.splits) >= 2
  /\ patchFiles' = plan.splits
  /\ tree' = repo.parent
  /\ pc' = "applying"
  /\ UNCHANGED <<diff, repo, classification, plan, created>>
  /\ UNCHANGED hunkOthers

\* a turn that, on a failure, goes back to the parent's tree and deletes the
\* saved files
ApplyPatchMutRollsBack ==
  /\ pc = "applying"
  /\ LET split == plan.splits[created + 1]
         applied == GitApply(tree, split)
     IN IF ~applied.ok \/ applied.tree = tree
        THEN /\ pc' = "failed"
             /\ tree' = repo.parent
             /\ created' = created
             /\ patchFiles' = <<>>
        ELSE /\ tree' = applied.tree
             /\ created' = created + 1
             /\ pc' = IF created + 1 = Len(plan.splits) THEN "done" ELSE "applying"
             /\ patchFiles' = IF created + 1 = Len(plan.splits) THEN <<>> ELSE patchFiles
  /\ UNCHANGED <<diff, repo, classification, plan>>
  /\ UNCHANGED hunkOthers

\* executeSplit: one turn of the loop over the patches; after the last turn
\* the saved files are deleted
ApplyPatch ==
  /\ pc = "applying"
  /\ LET split == plan.splits[created + 1]
         applied == GitApply(tree, split)
     IN IF ~applied.ok \/ applied.tree = tree
        THEN /\ pc' = "failed"
             /\ tree' = applied.tree
             /\ created' = created
             /\ patchFiles' = patchFiles
        ELSE /\ tree' = applied.tree
             /\ created' = created + 1
             /\ pc' = IF created + 1 = Len(plan.splits) THEN "done" ELSE "applying"
             /\ patchFiles' = IF created + 1 = Len(plan.splits) THEN <<>> ELSE patchFiles
  /\ UNCHANGED <<diff, repo, classification, plan>>
  /\ UNCHANGED hunkOthers

Next == GenerateSplitPlan \/ NoSplit \/ HardReset \/ ApplyPatch

Spec == Init /\ [][Next]_vars

\* the original diff, as a patch file, turns the parent's tree into the commit's
SanityDiffApplies ==
  (\A i \in 1..Len(diff) : diff[i].k # "@@bad")
    => GitApply(repo.parent, PlusNewline(diff)) = [ok |-> TRUE, tree |-> repo.commit]

\* ------------------------------------------------ claims on the hunk level
ParsedFiles == parseDiffIntoHunks(diff)

HeaderLines(text) == SelectSeq(text, LAMBDA l : l.k \in {"@@", "@@bad"})

\* new-count minus old-count of a hunk as its original header states them
NetOf(hunk) == CountOr1(hunk.header.nc) - CountOr1(hunk.header.oc)

\* the hunks of the diff that a commit of the classification selects,
\* file by file, in the order of the diff
SelectedBy(c) == SelectSeq(AllHunks(ParsedFiles), LAMBDA h : h.id \in classification.commits[c])

\* C1: in every patch of the plan, a selected hunk with a parseable header is
\* emitted with its original old-start, old-count and new-count, and with
\* new-start = old-start + the sum of (new-count - old-count) of the hunks of
\* the same file selected into the same patch before it
C1_OffsetsOfSelectedHunks ==
  plan.ok =>
    \A c \in 1..Len(plan.splits) :
      LET sel == SelectedBy(c)
          out == HeaderLines(plan.splits[c])
          Earlier(j) == {m \in 1..(j - 1) : /\ sel[m].filePath = sel[j].filePath
                                            /\ sel[m].header.k = "@@"}
      IN /\ Len(out) = Len(sel)
         /\ \A j \in 1..Len(sel) :
              sel[j].header.k = "@@" =>
                /\ out[j].os = sel[j].header.os
                /\ out[j].oc = CountOr1(sel[j].header.oc)
                /\ out[j].nc = CountOr1(sel[j].header.nc)
                /\ out[j].t = sel[j].header.t
                /\ out[j].ns = sel[j].header.os
                                 + Sum([m \in 1..Len(sel) |-> NetOf(sel[m])], Earlier(j))

\* a patch selects the first and the third hunk of a file and not the second,
\* the first two with a net change, so the third hunk's new-start is not the
\* one of the original diff
C1_Witness ==
  /\ plan.ok
  /\ \E c \in 1..Len(plan.splits), f \in 1..Len(ParsedFiles) :
       LET hs == ParsedFiles[f].hunks
       IN /\ Len(hs) >= 3
          /\ \A j \in 1..3 : hs[j].header.k = "@@" /\ NetOf(hs[j]) # 0
          /\ hs[1].id \in classification.commits[c]
          /\ hs[2].id \notin classification.commits[c]
          /\ hs[3].id \in classification.commits[c]
          /\ \E i \in 1..Len(plan.splits[c]) :
               /\ plan.splits[c][i].k = "@@"
               /\ plan.splits[c][i].os = hs[3].header.os
               /\ plan.splits[c][i].ns = hs[3].header.os + NetOf(hs[1])
               /\ plan.splits[c][i].ns # hs[3].header.ns

\* a hunk header without its two line-count fields
WithoutCounts(l) == IF l.k = "@@" THEN [l EXCEPT !.oc = 0, !.nc = 0] ELSE l

SameButCounts(a, b) ==
  /\ Len(a) = Len(b)
  /\ \A i \in 1..Len(a) : WithoutCounts(a[i]) = WithoutCounts(b[i])

AllIds == {h.id : h \in {AllHunks(ParsedFiles)[i] : i \in 1..Len(AllHunks(ParsedFiles))}}

\* C2: a patch rebuilt with every hunk id selected has the lines of the
\* original diff, the line-count fields of the hunk headers apart
C2_RoundTrip ==
  plan.ok =>
    \A c \in 1..Len(plan.splits) :
      AllIds \subseteq classification.commits[c]
        => SameButCounts(PatchLines(plan.splits[c]), diff)

IsPartition ==
  /\ classification.ok
  /\ \A id \in AllIds :
       Cardinality({c \in 1..Len(classification.commits) : id \in classification.commits[c]}) = 1
  /\ \A c \in 1..Len(classification.commits) :
       classification.commits[c] # {} /\ classification.commits[c] \subseteq AllIds

\* every hunk header of the diff parses, and every hunk has an unchanged line
\* before its first change and after its last one
WellFormedDiff ==
  /\ \A i \in 1..Len(diff) : diff[i].k # "@@bad"
  /\ \A i \in 1..Len(AllHunks(ParsedFiles)) :
       LET body == AllHunks(ParsedFiles)[i].content
       IN body[1].k = " " /\ body[Len(body)] \in {EmptyLine, Ctx("a"), Ctx("b")}
            /\ (body[Len(body)] = EmptyLine => body[Len(body) - 1].k = " ")

\* C3: when the classification is a partition of the hunks among the
\* commits, executeSplit applies every patch and ends with the commit's tree
C3_SplitReproducesCommit ==
  (WellFormedDiff /\ IsPartition /\ Len(classification.commits) >= 2 /\ pc \in {"done", "failed"})
    => (pc = "done" /\ tree = repo.commit)

\* how many hunk headers of file `path` with old-start `os` a patch holds
Occurrences(text, path, os) ==
  Cardinality({i \in 1..Len(text) :
     /\ text[i].k = "@@" /\ text[i].os = os
     /\ \E g \in 1..i : /\ text[g] = GitLine(path)
                        /\ \A m \in (g + 1)..i : text[m].k # "diff --git"})

\* C4: every hunk of the parsed diff is in exactly one patch of the plan
C4_PlanExhaustiveDisjoint ==
  plan.ok =>
    \A i \in 1..Len(AllHunks(ParsedFiles)) :
      LET h == AllHunks(ParsedFiles)[i]
      IN h.header.k = "@@" =>
           Sum([c \in 1..Len(plan.splits) |->
                  Occurrences(plan.splits[c], h.filePath, h.header.os)],
               1..Len(plan.splits)) = 1

\* ------------------------------------------------------ parseDiffWithLines
\* the places of the '+' and '-' lines of the hunks, in the order of the scan:
\* file (position in files), hunkIdx and lineIdx (both from 1 here)
ChangedPlaces(files) ==
  Flatten([f \in 1..Len(files) |->
    Flatten([h \in 1..Len(files[f].hunks) |->
      LET hunkLines == files[f].hunks[h].content
      IN SelectSeq([l \in 1..Len(hunkLines) |-> [file |-> f, hunkIdx |-> h, lineIdx |-> l]],
                   LAMBDA at : \/ StartsWith(hunkLines[at.lineIdx], "+")
                               \/ StartsWith(hunkLines[at.lineIdx], "-"))])])

\* lines.push({id, filePath, hunkIdx, lineIdx, type, content}) for the line at
\* a place
ChangedLine(files, at, id) ==
  LET line == files[at.file].hunks[at.hunkIdx].content[at.lineIdx]
  IN [id |-> id,
      filePath |-> files[at.file].filePath,
      hunkIdx |-> at.hunkIdx,
      lineIdx |-> at.lineIdx,
      type |-> IF StartsWith(line, "+") THEN "+" ELSE "-",
      content |-> line.t]

ChangedLines(files, places) ==
  [n \in 1..Len(places) |-> ChangedLine(files, places[n], n - 1)]

ParsedWithLines(files) ==
  [files |-> files, lines |-> ChangedLines(files, ChangedPlaces(files))]

parseDiffWithLines(text) == ParsedWithLines(parseDiffIntoHunks(text))

\* ------------------------------------------------- rebuildPatchFromLineIds
isNewFileHeader(header) ==
  \E i \in 1..Len(header) : header[i].k \in {"new file mode", "--- /dev/null"}

\* a conversion that leaves the creation header as it is
ConvertMutKeepsCreation(header, filePath) == header

convertNewFileToModificationHeader(header, filePath) ==
  LET NewLine(line) == IF StartsWith(line, "new file mode") THEN <<>>
                       ELSE IF line = MinusDevNull THEN <<MinusA(filePath)>>
                       ELSE <<line>>
  IN JoinLines(Flatten([i \in 1..Len(header) |-> NewLine(header[i])]))

\* selectedByFileHunk.get(`${filePath}:${hunkIdx}`): the lineIdx of the
\* selected lines under that key
SelectedLineIdxs(parsed, selectedSet, filePath, hunkIdx) ==
  {parsed.lines[n].lineIdx : n \in {m \in 1..Len(parsed.lines) :
      /\ parsed.lines[m].id \in selectedSet
      /\ parsed.lines[m].filePath = filePath
      /\ parsed.lines[m].hunkIdx = hunkIdx}}

\* a filter that counts an unselected deletion on the old side only
FilterLineMutOldOnly(line, isLast, isSelected) ==
  IF line = EmptyLine /\ isLast THEN [out |-> <<>>, old |-> 0, new |-> 0]
  ELSE IF StartsWith(line, "+")
       THEN (IF isSelected THEN [out |-> <<line>>, old |-> 0, new |-> 1]
             ELSE [out |-> <<>>, old |-> 0, new |-> 0])
  ELSE IF StartsWith(line, "-")
       THEN (IF isSelected THEN [out |-> <<line>>, old |-> 1, new |-> 0]
             ELSE [out |-> <<Ctx(line.t)>>, old |-> 1, new |-> 0])
  ELSE [out |-> <<line>>, old |-> 1, new |-> 1]

\* one turn of the loop over hunkLines: what is pushed, and what it adds to
\* oldCount and to newCount
FilterLine(line, isLast, isSelected) ==
  IF line = EmptyLine /\ isLast THEN [out |-> <<>>, old |-> 0, new |-> 0]
  ELSE IF StartsWith(line, "+")
       THEN (IF isSelected THEN [out |-> <<line>>, old |-> 0, new |-> 1]
             ELSE [out |-> <<>>, old |-> 0, new |-> 0])
  ELSE IF StartsWith(line, "-")
       THEN (IF isSelected THEN [out |-> <<line>>, old |-> 1, new |-> 0]
             ELSE [out |-> <<Ctx(line.t)>>, old |-> 1, new |-> 1])
  ELSE IF StartsWith(line, " ") \/ line = EmptyLine
       THEN [out |-> <<line>>, old |-> 1, new |-> 1]
  ELSE [out |-> <<line>>, old |-> 0, new |-> 0]

\* a rebuilt hunk whose new-start takes no offset
RebuildLineHunkMutNoOffset(hunk, selectedLineIdxs, cumulativeOffset) ==
  LET hunkLines == hunk.content
      turns == [l \in 1..Len(hunkLines) |->
                  FilterLine(hunkLines[l], l = Len(hunkLines), l \in selectedLineIdxs)]
      newHunkLines == Flatten([l \in 1..Len(turns) |-> turns[l].out])
      oldCount == Sum([l \in 1..Len(turns) |-> turns[l].old], 1..Len(turns))
      newCount == Sum([l \in 1..Len(turns) |-> turns[l].new], 1..Len(turns))
      newHeader == Hdr(hunk.header.os, oldCount, hunk.header.os, newCount, hunk.header.t)
  IN [hasChanges |-> \E l \in 1..Len(newHunkLines) :
                        StartsWith(newHunkLines[l], "+") \/ StartsWith(newHunkLines[l], "-"),
      part |-> <<newHeader>> \o JoinLines(newHunkLines),
      oldCount |-> oldCount,
      newCount |-> newCount]

\* a hunk with selected lines, rebuilt: [hasChanges, part, oldCount, newCount]
RebuildLineHunk(hunk, selectedLineIdxs, cumulativeOffset) ==
  LET hunkLines == hunk.content
      turns == [l \in 1..Len(hunkLines) |->
                  FilterLine(hunkLines[l], l = Len(hunkLines), l \in selectedLineIdxs)]
      newHunkLines == Flatten([l \in 1..Len(turns) |-> turns[l].out])
      oldCount == Sum([l \in 1..Len(turns) |-> turns[l].old], 1..Len(turns))
      newCount == Sum([l \in 1..Len(turns) |-> turns[l].new], 1..Len(turns))
      newStart == hunk.header.os + cumulativeOffset
      newHeader == Hdr(hunk.header.os, oldCount, newStart, newCount, hunk.header.t)
  IN [hasChanges |-> \E l \in 1..Len(newHunkLines) :
                        StartsWith(newHunkLines[l], "+") \/ StartsWith(newHunkLines[l], "-"),
      part |-> <<newHeader>> \o JoinLines(newHunkLines),
      oldCount |-> oldCount,
      newCount |-> newCount]

\* fileHunks of one file, from hunk hunkIdx on
RECURSIVE RebuildLineHunks(_, _, _, _, _)
RebuildLineHunks(parsed, selectedSet, file, hunkIdx, cumulativeOffset) ==
  IF hunkIdx > Len(file.hunks) THEN <<>>
  ELSE LET hunk == file.hunks[hunkIdx]
           selectedLineIdxs == SelectedLineIdxs(parsed, selectedSet, file.filePath, hunkIdx)
           rebuilt == RebuildLineHunk(hunk, selectedLineIdxs, cumulativeOffset)
       IN IF ~HeaderMatches(hunk.header) \/ selectedLineIdxs = {} \/ ~rebuilt.hasChanges
          THEN RebuildLineHunks(parsed, selectedSet, file, hunkIdx + 1, cumulativeOffset)
          ELSE <<rebuilt.part>>
                 \o RebuildLineHunks(parsed, selectedSet, file, hunkIdx + 1,
                                     cumulativeOffset + rebuilt.newCount - rebuilt.oldCount)

\* the loop over parsed.files from file i on: [parts, createdFiles]
RECURSIVE RebuildLineFiles(_, _, _, _)
RebuildLineFiles(parsed, selectedSet, i, created0) ==
  IF i > Len(parsed.files) THEN [parts |-> <<>>, createdFiles |-> created0]
  ELSE LET file == parsed.files[i]
           fileHunks == RebuildLineHunks(parsed, selectedSet, file, 1, 0)
           isNew == isNewFileHeader(file.fileHeader)
           header == IF isNew /\ file.filePath \in created0
                     THEN convertNewFileToModificationHeader(file.fileHeader, file.filePath)
                     ELSE file.fileHeader
           created1 == IF Len(fileHunks) > 0 /\ isNew THEN created0 \cup {file.filePath}
                       ELSE created0
           rest == RebuildLineFiles(parsed, selectedSet, i + 1, created1)
       IN IF Len(fileHunks) > 0
          THEN [parts |-> <<header>> \o fileHunks \o rest.parts,
                createdFiles |-> rest.createdFiles]
          ELSE rest

\* [patch, createdFiles]: the text returned and the set as the call leaves it
rebuildPatchFromLineIds(parsed, lineIds, created0) ==
  LET r == RebuildLineFiles(parsed, lineIds, 1, created0)
  IN [patch |-> PlusNewline(JoinTexts(r.parts)), createdFiles |-> r.createdFiles]

\* -------------------------------------------------- the line-level pipeline
MaxLineHunks == 2
MaxCalls == 2

LineShapeRepl == [body |-> <<Ctx("a"), Del("b"), Add("c"), Ctx("a")>>, label |-> " fn", bad |-> FALSE]
LineShapeAdd == [body |-> <<Ctx("a"), Add("b"), Add("b")>>, label |-> "", bad |-> FALSE]
LineShapeDel == [body |-> <<Del("b"), Ctx("a"), Del("c")>>, label |-> "", bad |-> FALSE]
LineShapeBad == [body |-> <<Ctx("a"), Add("b"), Ctx("a")>>, label |-> "", bad |-> TRUE]
LineShapeNew == [body |-> <<Add("a"), Add("b")>>, label |-> "", bad |-> FALSE]
LineShapeBlank == [body |-> <<Ctx("a"), Add("b"), Ctx("")>>, label |-> "", bad |-> FALSE]
LineShapes == {LineShapeRepl, LineShapeAdd, LineShapeDel, LineShapeBad, LineShapeBlank}

LineFileChanges(path, n) ==
  {[path |-> path, isNew |-> FALSE, hunks |-> hs] : hs \in [1..n -> LineShapes]}
    \cup (IF n = 1 THEN {[path |-> path, isNew |-> TRUE, hunks |-> <<LineShapeNew>>]} ELSE {})

RECURSIVE LineChangesFrom(_, _)
LineChangesFrom(fileNo, hunksLeft) ==
  IF fileNo > MaxFiles \/ hunksLeft = 0 THEN {<<>>}
  ELSE {<<>>} \cup
       UNION {{<<fc>> \o rest : fc \in LineFileChanges(Paths[fileNo], n),
                                rest \in LineChangesFrom(fileNo + 1, hunksLeft - n)}
              : n \in 1..hunksLeft}

LineChanges == LineChangesFrom(1, MaxLineHunks) \ {<<>>}

LineInit ==
  /\ \E change \in LineChanges : lineDiff = GitShow(change)
  /\ calls = <<>>
  /\ createdFiles = {}
  /\ LineOthersIdle

\* one call of rebuildPatchFromLineIds(parsed, lineIds, createdFiles), with any
\* selection of the ids of the changed lines
RebuildPatchFromLineIds ==
  /\ Len(calls) < MaxCalls
  /\ LET parsed == parseDiffWithLines(lineDiff)
     IN \E lineIds \in SUBSET {parsed.lines[n].id : n \in 1..Len(parsed.lines)} :
          LET r == rebuildPatchFromLineIds(parsed, lineIds, createdFiles)
          IN /\ calls' = Append(calls, [lineIds |-> lineIds, patch |-> r.patch,
                                        before |-> createdFiles])
             /\ createdFiles' = r.createdFiles
  /\ UNCHANGED <<lineDiff, lineOthers>>

LineNext == RebuildPatchFromLineIds

SpecLine == LineInit /\ [][LineNext]_vars

LineParsed == parseDiffWithLines(lineDiff)

\* ------------------------------------------------- claims on the line level
\* the '+' and '-' lines of a patch text, each with its file and the old-start
\* of its hunk
PatchChanged(patch) ==
  LET files == parseDiffIntoHunks(patch)
  IN Flatten([f \in 1..Len(files) |->
       Flatten([h \in 1..Len(files[f].hunks) |->
         LET hunk == files[f].hunks[h]
             changed == SelectSeq(hunk.content, LAMBDA l : l.k \in {"+", "-"})
         IN [n \in 1..Len(changed) |->
               [filePath |-> hunk.filePath, os |-> hunk.header.os,
                k |-> changed[n].k, t |-> changed[n].t]]])])

\* the changed lines of the parsed diff with an id in ids, in the same form
GroupChanged(parsed, ids) ==
  LET chosen == SelectSeq(parsed.lines, LAMBDA line : line.id \in ids)
      FileOf(line) == parsed.files[CHOOSE f \in 1..Len(parsed.files) :
                                     parsed.files[f].filePath = line.filePath]
  IN [n \in 1..Len(chosen) |->
        [filePath |-> chosen[n].filePath,
         os |-> FileOf(chosen[n]).hunks[chosen[n].hunkIdx].header.os,
         k |-> chosen[n].type, t |-> chosen[n].content]]

Occ(seq, x) == Cardinality({n \in 1..Len(seq) : seq[n] = x})

SameBag(a, b) ==
  \A x \in {a[n] : n \in 1..Len(a)} \cup {b[n] : n \in 1..Len(b)} : Occ(a, x) = Occ(b, x)

LineIdsOf(parsed) == {parsed.lines[n].id : n \in 1..Len(parsed.lines)}

\* the calls made so far select disjoint groups that cover every line id
CallsPartition(parsed) ==
  /\ Len(calls) >= 1
  /\ \A id \in LineIdsOf(parsed) :
       Cardinality({c \in 1..Len(calls) : id \in calls[c].lineIds}) = 1

\* C5: when the line ids of the calls are a partition of the changed-line ids
\* of the parsed diff, the '+' and '-' lines of each call's patch are exactly
\* the lines of the call's own group, each once: so every addition and every
\* deletion of the diff is emitted exactly once over the K patches
C5_LineExhaustive ==
  LET parsed == LineParsed
  IN CallsPartition(parsed) =>
       \A c \in 1..Len(calls) :
          SameBag(PatchChanged(calls[c].patch), GroupChanged(parsed, calls[c].lineIds))

\* the same, for a diff all of whose hunk headers match the header pattern
LineExhaustiveWhenHeadersMatch ==
  (\A i \in 1..Len(lineDiff) : lineDiff[i].k # "@@bad") => C5_LineExhaustive

\* the file header a patch text carries for a path, <<>> when it has none
HeaderIn(patch, path) ==
  LET files == parseDiffIntoHunks(patch)
      at == {f \in 1..Len(files) : files[f].filePath = path}
  IN IF at = {} THEN <<>> ELSE files[CHOOSE f \in at : TRUE].fileHeader

HasLine(header, line) == \E i \in 1..Len(header) : header[i] = line

IsCreationHeader(header) == HasLine(header, MinusDevNull)

IsModificationHeader(header, path) ==
  /\ HasLine(header, MinusA(path))
  /\ HasLine(header, PlusB(path))
  /\ ~HasLine(header, NewFileMode)
  /\ ~HasLine(header, MinusDevNull)

\* the createdFiles set as call c left it
CreatedAfter(c) == IF c = Len(calls) THEN createdFiles ELSE calls[c + 1].before

\* C6: over the calls made so far with the shared createdFiles set, for each
\* file whose header marks a creation: the first patch that emits hunks for
\* the file carries the creation header with '--- /dev/null', it is the only
\* one that does, every later patch that emits hunks for the file carries
\* '--- a/<path>' and '+++ b/<path>' and no 'new file mode' line, and a call
\* adds the file to the set exactly when it emits a hunk for it
C6_NewFileSplit ==
  LET parsed == LineParsed
  IN \A f \in 1..Len(parsed.files) :
       isNewFileHeader(parsed.files[f].fileHeader) =>
         LET path == parsed.files[f].filePath
             headers == [c \in 1..Len(calls) |-> HeaderIn(calls[c].patch, path)]
             emitting == {c \in 1..Len(calls) : headers[c] # <<>>}
         IN /\ \A c \in emitting :
                 IF \A e \in emitting : c <= e
                 THEN headers[c] = parsed.files[f].fileHeader /\ IsCreationHeader(headers[c])
                 ELSE IsModificationHeader(headers[c], path)
            /\ emitting # {} => Cardinality({c \in emitting : IsCreationHeader(headers[c])}) = 1
            /\ \A c \in 1..Len(calls) :
                 (path \in CreatedAfter(c)) <=> (path \in calls[c].before \/ c \in emitting)

\* two new files: the first call emits the creation of one and no hunk of the
\* other, the second call emits a modification of the one and the creation of
\* the other
C6_Witness ==
  /\ Len(calls) = 2
  /\ \E f, g \in 1..Len(LineParsed.files) :
       LET one == LineParsed.files[f].filePath
           other == LineParsed.files[g].filePath
       IN /\ isNewFileHeader(LineParsed.files[f].fileHeader)
          /\ isNewFileHeader(LineParsed.files[g].fileHeader)
          /\ IsCreationHeader(HeaderIn(calls[1].patch, one))
          /\ HeaderIn(calls[1].patch, other) = <<>>
          /\ calls[2].before = {one}
          /\ IsModificationHeader(HeaderIn(calls[2].patch, one), one)
          /\ IsCreationHeader(HeaderIn(calls[2].patch, other))
          /\ createdFiles = {one, other}

\* the lines of a hunk's content without the empty segment a final '\n' leaves
BodyOf(content) ==
  IF Len(content) > 0 /\ content[Len(content)] = EmptyLine
  THEN SubSeq(content, 1, Len(content) - 1) ELSE content

\* the hunks a patch text carries for a path
HunksIn(patch, path) ==
  LET files == parseDiffIntoHunks(patch)
      at == {f \in 1..Len(files) : files[f].filePath = path}
  IN IF at = {} THEN <<>> ELSE files[CHOOSE f \in at : TRUE].hunks

\* what the filtering rules make of a line of the original hunk
FilteredAs(line, isSelected) ==
  CASE line.k = "+" /\ isSelected -> <<line>>
    [] line.k = "+" /\ ~isSelected -> <<>>
    [] line.k = "-" /\ isSelected -> <<line>>
    [] line.k = "-" /\ ~isSelected -> <<Ctx(line.t)>>
    [] OTHER -> <<line>>

\* C7: every hunk a call emits is the original hunk of the same file and
\* old-start filtered line by line (selected '+' kept, unselected '+' omitted,
\* selected '-' kept, unselected '-' turned into a context line of the same
\* text, context kept), and its header's old-count is the number of selected
\* deletions, unselected deletions and context lines, its new-count the number
\* of selected additions, unselected deletions and context lines
C7_LineFiltering ==
  LET parsed == LineParsed
  IN \A c \in 1..Len(calls), f \in 1..Len(parsed.files) :
       LET file == parsed.files[f]
           emitted == HunksIn(calls[c].patch, file.filePath)
       IN \A e \in 1..Len(emitted) :
            \E h \in 1..Len(file.hunks) :
              LET orig == BodyOf(file.hunks[h].content)
                  sel == SelectedLineIdxs(parsed, calls[c].lineIds, file.filePath, h)
                  Num(kind, selected) ==
                    Cardinality({l \in 1..Len(orig) :
                                   orig[l].k = kind /\ ((l \in sel) = selected)})
                  context == Cardinality({l \in 1..Len(orig) : orig[l].k = " "})
              IN /\ HeaderMatches(file.hunks[h].header)
                 /\ file.hunks[h].header.os = emitted[e].header.os
                 /\ BodyOf(emitted[e].content)
                      = Flatten([l \in 1..Len(orig) |-> FilteredAs(orig[l], l \in sel)])
                 /\ emitted[e].header.oc = Num("-", TRUE) + Num("-", FALSE) + context
                 /\ emitted[e].header.nc = Num("+", TRUE) + Num("-", FALSE) + context

\* a call that keeps a hunk with an unselected deletion and a selected
\* addition, and a call that keeps a hunk with one addition selected and one not
C7_Witness ==
  LET parsed == LineParsed
  IN \E c1, c2 \in 1..Len(calls), f \in 1..Len(parsed.files) :
       LET file == parsed.files[f]
       IN \E h1, h2 \in 1..Len(file.hunks) :
            LET sel1 == SelectedLineIdxs(parsed, calls[c1].lineIds, file.filePath, h1)
                sel2 == SelectedLineIdxs(parsed, calls[c2].lineIds, file.filePath, h2)
                b1 == file.hunks[h1].content
                b2 == file.hunks[h2].content
            IN /\ Len(HunksIn(calls[c1].patch, file.filePath)) > 0
               /\ Len(HunksIn(calls[c2].patch, file.filePath)) > 0
               /\ \E l \in 1..Len(b1) : b1[l].k = "-" /\ l \notin sel1
               /\ \E l \in 1..Len(b1) : b1[l].k = "+" /\ l \in sel1
               /\ \E l \in 1..Len(b2) : b2[l].k = "+" /\ l \notin sel2
               /\ \E l \in 1..Len(b2) : b2[l].k = "+" /\ l \in sel2

\* C8: in every call's patch the hunks of a file are, in the original order,
\* the hunks of the file that have a selected line (and a header that matches
\* the pattern): a hunk with no selected line is not in the patch; each emitted
\* hunk has the original old-start, and its new-start is the old-start plus the
\* sum of new-count minus old-count, as rebuilt, of the hunks of the file
\* emitted before it in this patch
C8_LineOffsets ==
  LET parsed == LineParsed
  IN \A c \in 1..Len(calls), f \in 1..Len(parsed.files) :
       LET file == parsed.files[f]
           emitted == HunksIn(calls[c].patch, file.filePath)
           kept == SelectSeq([h \in 1..Len(file.hunks) |-> h],
                     LAMBDA h : /\ HeaderMatches(file.hunks[h].header)
                                /\ SelectedLineIdxs(parsed, calls[c].lineIds,
                                                    file.filePath, h) # {})
       IN /\ Len(emitted) = Len(kept)
          /\ \A e \in 1..Len(emitted) :
               /\ emitted[e].header.os = file.hunks[kept[e]].header.os
               /\ emitted[e].header.ns =
                    emitted[e].header.os
                      + Sum([d \in 1..Len(emitted) |->
                               emitted[d].header.nc - emitted[d].header.oc], 1..(e - 1))

\* a call that leaves out the first hunk of a file and one that emits two
\* hunks of a file, the first with a net change
C8_Witness ==
  LET parsed == LineParsed
  IN \E c1, c2 \in 1..Len(calls), f \in 1..Len(parsed.files) :
       LET file == parsed.files[f]
           skipping == HunksIn(calls[c1].patch, file.filePath)
           emitted == HunksIn(calls[c2].patch, file.filePath)
       IN /\ Len(file.hunks) = 2
          /\ Len(skipping) = 1
          /\ skipping[1].header.os = file.hunks[2].header.os
          /\ Len(emitted) = 2
          /\ emitted[1].header.nc # emitted[1].header.oc
          /\ emitted[2].header.ns # emitted[2].header.os

\* ------------------------------------------------------ validateAndFixPatch
\* Here a text is the sequence of its characters.  The words a check looks
\* for ('diff --git', '---', '+++', '@@') are single characters of the
\* alphabet; the space after '---' and '+++' is a character of its own, so
\* that trim() can take it away.
Backslash == "\\"
Newline == "\n"
Space == " "
Whitespace == {Space, Newline}

\* text.includes(pattern)
Includes(text, pattern) ==
  \E i \in 1..(Len(text) - Len(pattern) + 1) :
     SubSeq(text, i, i + Len(pattern) - 1) = pattern

\* text.replace(/\\n/g, '\n')
RECURSIVE Unescape(_)
Unescape(text) ==
  IF Len(text) = 0 THEN <<>>
  ELSE IF Len(text) >= 2 /\ text[1] = Backslash /\ text[2] = "n"
       THEN <<Newline>> \o Unescape(SubSeq(text, 3, Len(text)))
       ELSE <<text[1]>> \o Unescape(Tail(text))

\* a trim() that takes nothing away
TrimMutNothing(text) == text

\* text.trim()
Trim(text) ==
  LET inked == {i \in 1..Len(text) : text[i] \notin Whitespace}
  IN IF inked = {} THEN <<>>
     ELSE SubSeq(text, CHOOSE i \in inked : \A j \in inked : i <= j,
                       CHOOSE i \in inked : \A j \in inked : i >= j)

\* text.split('\n')
RECURSIVE SplitNewline(_)
SplitNewline(text) ==
  LET breaks == {i \in 1..Len(text) : text[i] = Newline}
  IN IF breaks = {} THEN <<text>>
     ELSE LET b == CHOOSE i \in breaks : \A j \in breaks : i <= j
          IN <<SubSeq(text, 1, b - 1)>> \o SplitNewline(SubSeq(text, b + 1, Len(text)))

\* line.startsWith(word + ' ')
StartsWithWordSpace(line, word) == Len(line) >= 2 /\ line[1] = word /\ line[2] = Space

PatchError(index, what) == [patch |-> index + 1, missing |-> what]

validateAndFixPatch(text, index) ==
  LET fixed1 == IF Includes(text, <<Backslash, "n">>) /\ ~Includes(text, <<Newline>>)
                THEN Unescape(text) ELSE text
      fixed2 == IF Len(fixed1) = 0 \/ fixed1[Len(fixed1)] # Newline
                THEN Append(fixed1, Newline) ELSE fixed1
      fixed == Append(Trim(fixed2), Newline)
      lines == SplitNewline(fixed)
      hasMinusLine == \E l \in 1..Len(lines) : StartsWithWordSpace(lines[l], "---")
      hasPlusLine == \E l \in 1..Len(lines) : StartsWithWordSpace(lines[l], "+++")
      hasHunk == \E l \in 1..Len(lines) :
                    /\ Len(lines[l]) >= 1 /\ lines[l][1] = "@@"
                    /\ \E j \in 2..Len(lines[l]) : lines[l][j] = "@@"
      errors == (IF Len(lines[1]) >= 1 /\ lines[1][1] = "diff --git" THEN <<>>
                 ELSE <<PatchError(index, "diff --git header")>>)
                \o (IF ~hasMinusLine \/ ~hasPlusLine
                    THEN <<PatchError(index, "--- or +++ file headers")>> ELSE <<>>)
                \o (IF ~hasHunk THEN <<PatchError(index, "hunk header")>> ELSE <<>>)
  IN [valid |-> Len(errors) = 0, fixed |-> fixed, errors |-> errors, warnings |-> <<>>]

\* the texts a run starts from: at most MaxLines lines, all separated by a
\* newline or all by an escaped newline, with a margin before and after
MaxLines == 4
MaxRuns == 2
MaxIndex == 1
FixLines == {<<"diff --git">>, <<"---", Space>>, <<"+++", Space>>, <<"@@", "@@">>,
             <<>>, <<Space>>}
Separators == {<<Newline>>, <<Backslash, "n">>}
Margins == {<<>>, <<Space>>, <<Newline>>, <<Backslash, "n">>}

JoinWith(ls, sep) ==
  Flatten([i \in 1..Len(ls) |-> IF i = 1 THEN ls[i] ELSE sep \o ls[i]])

FixInit ==
  /\ \E n \in 0..MaxLines, sep \in Separators, before \in Margins, after \in Margins,
        index \in 0..MaxIndex :
       \E ls \in [1..n -> FixLines] :
          patchText = [diff |-> before \o JoinWith(ls, sep) \o after, index |-> index]
  /\ fixRuns = <<>>
  /\ FixOthersIdle

\* validateAndFixPatch on the text, and then on the text it returned
ValidateAndFixPatch ==
  /\ Len(fixRuns) < MaxRuns
  /\ LET text == IF Len(fixRuns) = 0 THEN patchText.diff ELSE fixRuns[Len(fixRuns)].fixed
     IN fixRuns' = Append(fixRuns, validateAndFixPatch(text, patchText.index))
  /\ UNCHANGED <<patchText, fixOthers>>

FixNext == ValidateAndFixPatch

SpecFix == FixInit /\ [][FixNext]_vars

\* C9: a second run of validateAndFixPatch, on the text the first run
\* returned and with the same index, returns the same text and the same errors
C9_FixerIdempotent ==
  Len(fixRuns) = 2 =>
    /\ fixRuns[2].fixed = fixRuns[1].fixed
    /\ fixRuns[2].errors = fixRuns[1].errors

\* two runs on a text with escaped newlines only and blanks around it, which
\* the first run changed and found valid
C9_Witness ==
  /\ Len(fixRuns) = 2
  /\ Includes(patchText.diff, <<Backslash, "n">>)
  /\ patchText.diff[1] = Space
  /\ fixRuns[1].fixed # patchText.diff
  /\ fixRuns[1].valid

\* two runs on a text the first run found errors in
C9_WitnessErrors ==
  /\ Len(fixRuns) = 2
  /\ Len(fixRuns[1].errors) = 2
  /\ Includes(patchText.diff, <<Newline, Newline>>)

\* ------------------------------------------------------ generateUnifiedDiff
\* The contents are sequences of lines (content.split('\n')), a line is a
\* string; indexes count from 0 as in the code, so line idx of a content is
\* content[idx + 1].  Undefined is the oldIdx or newIdx an operation lacks.
Undefined == 0 - 1

Op(type, oldIdx, newIdx, line) ==
  [type |-> type, oldIdx |-> oldIdx, newIdx |-> newIdx, line |-> line]

\* a search that never takes the candidate right after the last match
FirstCandidateMutSkipsOne(newLines, line, lastNewMatch, matchedNew) ==
  LET found == {newIdx \in 0..(Len(newLines) - 1) :
                  /\ newLines[newIdx + 1] = line
                  /\ newIdx > lastNewMatch + 1 /\ newIdx \notin matchedNew}
  IN IF found = {} THEN Undefined ELSE CHOOSE n \in found : \A m \in found : n <= m

\* the first candidate of newLineMap.get(line) that lies after lastNewMatch
\* and is not matched yet, Undefined when there is none
FirstCandidate(newLines, line, lastNewMatch, matchedNew) ==
  LET found == {newIdx \in 0..(Len(newLines) - 1) :
                  /\ newLines[newIdx + 1] = line
                  /\ newIdx > lastNewMatch /\ newIdx \notin matchedNew}
  IN IF found = {} THEN Undefined ELSE CHOOSE n \in found : \A m \in found : n <= m

\* matches, from oldIdx on
RECURSIVE MatchesFrom(_, _, _, _, _)
MatchesFrom(oldLines, newLines, oldIdx, lastNewMatch, matchedNew) ==
  IF oldIdx >= Len(oldLines) THEN <<>>
  ELSE LET newIdx == FirstCandidate(newLines, oldLines[oldIdx + 1], lastNewMatch, matchedNew)
       IN IF newIdx = Undefined
          THEN MatchesFrom(oldLines, newLines, oldIdx + 1, lastNewMatch, matchedNew)
          ELSE <<[oldIdx |-> oldIdx, newIdx |-> newIdx]>>
                 \o MatchesFrom(oldLines, newLines, oldIdx + 1, newIdx,
                                matchedNew \cup {newIdx})

\* removals that leave out the last old line before a match
RemovalsMutDropsLast(oldLines, from, to) ==
  [n \in 1..(IF to > from + 1 THEN to - from - 1 ELSE 0) |->
     [type |-> "remove", oldIdx |-> from + n - 1, newIdx |-> 0 - 1, line |-> oldLines[from + n]]]

\* the removals of the old lines from..(to - 1), the additions likewise
Removals(oldLines, from, to) ==
  [n \in 1..(IF to > from THEN to - from ELSE 0) |->
     Op("remove", from + n - 1, Undefined, oldLines[from + n])]

Additions(newLines, from, to) ==
  [n \in 1..(IF to > from THEN to - from ELSE 0) |->
     Op("add", Undefined, from + n - 1, newLines[from + n])]

Max(a, b) == IF a > b THEN a ELSE b
Min(a, b) == IF a < b THEN a ELSE b

\* ops, from match m on
RECURSIVE OpsFrom(_, _, _, _, _, _)
OpsFrom(oldLines, newLines, matches, m, oldPtr, newPtr) ==
  IF m > Len(matches)
  THEN Removals(oldLines, oldPtr, Len(oldLines)) \o Additions(newLines, newPtr, Len(newLines))
  ELSE LET match == matches[m]
           oldAt == Max(oldPtr, match.oldIdx)
           newAt == Max(newPtr, match.newIdx)
       IN Removals(oldLines, oldPtr, match.oldIdx)
            \o Additions(newLines, newPtr, match.newIdx)
            \o <<Op("keep", oldAt, newAt, oldLines[oldAt + 1])>>
            \o OpsFrom(oldLines, newLines, matches, m + 1, oldAt + 1, newAt + 1)

computeLineDiff(oldLines, newLines) ==
  OpsFrom(oldLines, newLines, MatchesFrom(oldLines, newLines, 0, Undefined, {}), 1, 0, 0)


buildHunkString(ops) ==
  LET oldOps == {i \in 1..Len(ops) : ops[i].type \in {"keep", "remove"}}
      newOps == {i \in 1..Len(ops) : ops[i].type \in {"keep", "add"}}
      oldCount == Cardinality(oldOps)
      newCount == Cardinality(newOps)
      oldStart == IF oldCount = 0 THEN 0
                  ELSE 1 + ops[CHOOSE i \in oldOps :
                                 \A j \in oldOps : ops[i].oldIdx <= ops[j].oldIdx].oldIdx
      newStart == IF newCount = 0 THEN 0
                  ELSE 1 + ops[CHOOSE i \in newOps :
                                 \A j \in newOps : ops[i].newIdx <= ops[j].newIdx].newIdx
      Line(op) == CASE op.type = "keep" -> Ln(" ", op.line)
                    [] op.type = "remove" -> Ln("-", op.line)
                    [] op.type = "add" -> Ln("+", op.line)
  IN <<Hdr(oldStart, oldCount, newStart, newCount, "")>>
       \o [i \in 1..Len(ops) |-> Line(ops[i])]

\* ops[from], ..., ops[to - 1] (indexes from 0)
OpsSlice(ops, from, to) ==
  [n \in 1..(IF to > from THEN to - from ELSE 0) |-> ops[from + n]]

\* the keep operations pushed as trailing context of a hunk that ends at i
TrailingKeeps(ops, i, contextLines) ==
  LET limit == Min(Len(ops), i + contextLines)
      stops == {j \in i..(limit - 1) : ops[j + 1].type # "keep"}
      stop == IF stops = {} THEN limit ELSE CHOOSE j \in stops : \A k \in stops : j <= k
  IN OpsSlice(ops, i, stop)

\* the loop of buildHunksFromDiff from operation i on; NoHunk is hunkStart -1
NoHunk == 0 - 1

\* a loop that also merges changes 2 * contextLines + 1 unchanged lines apart
RECURSIVE HunksFromMutWiderMerge(_, _, _, _, _, _)
HunksFromMutWiderMerge(ops, contextLines, i, hunkStart, hunkOps, hunks) ==
  IF i >= Len(ops)
  THEN (IF Len(hunkOps) > 0 THEN Append(hunks, buildHunkString(hunkOps)) ELSE hunks)
  ELSE LET op == ops[i + 1]
       IN IF op.type # "keep"
          THEN (IF hunkStart = NoHunk
                THEN HunksFromMutWiderMerge(ops, contextLines, i + 1, Max(0, i - contextLines),
                               Append(hunkOps \o OpsSlice(ops, Max(0, i - contextLines), i), op),
                               hunks)
                ELSE HunksFromMutWiderMerge(ops, contextLines, i + 1, hunkStart, Append(hunkOps, op), hunks))
          ELSE IF hunkStart # NoHunk
               THEN (IF \E j \in (i + 1)..Min(Len(ops) - 1, i + contextLines * 2 + 1) :
                           ops[j + 1].type # "keep"
                     THEN HunksFromMutWiderMerge(ops, contextLines, i + 1, hunkStart,
                                    Append(hunkOps, op), hunks)
                     ELSE HunksFromMutWiderMerge(ops, contextLines, i + 1, NoHunk, <<>>,
                                    Append(hunks,
                                           buildHunkString(hunkOps
                                             \o TrailingKeeps(ops, i, contextLines)))))
               ELSE HunksFromMutWiderMerge(ops, contextLines, i + 1, hunkStart, hunkOps, hunks)

buildHunksFromDiffMutWiderMerge(ops, contextLines) ==
  HunksFromMutWiderMerge(ops, contextLines, 0, NoHunk, <<>>, <<>>)

RECURSIVE HunksFrom(_, _, _, _, _, _)
HunksFrom(ops, contextLines, i, hunkStart, hunkOps, hunks) ==
  IF i >= Len(ops)
  THEN (IF Len(hunkOps) > 0 THEN Append(hunks, buildHunkString(hunkOps)) ELSE hunks)
  ELSE LET op == ops[i + 1]
       IN IF op.type # "keep"
          THEN (IF hunkStart = NoHunk
                THEN HunksFrom(ops, contextLines, i + 1, Max(0, i - contextLines),
                               Append(hunkOps \o OpsSlice(ops, Max(0, i - contextLines), i), op),
                               hunks)
                ELSE HunksFrom(ops, contextLines, i + 1, hunkStart, Append(hunkOps, op), hunks))
          ELSE IF hunkStart # NoHunk
               THEN (IF \E j \in (i + 1)..Min(Len(ops) - 1, i + contextLines * 2) :
                           ops[j + 1].type # "keep"
                     THEN HunksFrom(ops, contextLines, i + 1, hunkStart,
                                    Append(hunkOps, op), hunks)
                     ELSE HunksFrom(ops, contextLines, i + 1, NoHunk, <<>>,
                                    Append(hunks,
                                           buildHunkString(hunkOps
                                             \o TrailingKeeps(ops, i, contextLines)))))
               ELSE HunksFrom(ops, contextLines, i + 1, hunkStart, hunkOps, hunks)

buildHunksFromDiff(ops, contextLines) == HunksFrom(ops, contextLines, 0, NoHunk, <<>>, <<>>)

\* the empty string
EmptyText == <<EmptyLine>>

generateUnifiedDiff(filePath, oldContent, newContent, isNewFile, contextLines) ==
  LET ops == computeLineDiff(oldContent, newContent)
      hasChanges == \E i \in 1..Len(ops) : ops[i].type # "keep"
      hunks == buildHunksFromDiff(ops, contextLines)
      header == IF isNewFile
                THEN <<GitLine(filePath), NewFileMode, Ln("index", "0000000..0000000"),
                       MinusDevNull, PlusB(filePath)>>
                ELSE <<GitLine(filePath), Ln("index", "0000000..0000000 100644"),
                       MinusA(filePath), PlusB(filePath)>>
  IN IF Len(ops) = 0 \/ ~hasChanges \/ Len(hunks) = 0 THEN EmptyText
     ELSE PlusNewline(JoinTexts(<<header>> \o hunks))

\* the arguments of a call: contents of at most MaxContentLines lines
MaxContentLines == 3
MaxContext == 3
ContentLines == {"", "a", "b"}
Contents == UNION {[1..n -> ContentLines] : n \in 1..MaxContentLines}

SynthInit ==
  /\ \E oldContent \in Contents, newContent \in Contents, isNewFile \in BOOLEAN,
        contextLines \in 0..MaxContext, p \in 1..MaxFiles :
       synthArgs = [filePath |-> Paths[p], oldContent |-> oldContent,
                    newContent |-> newContent, isNewFile |-> isNewFile,
                    contextLines |-> contextLines]
  /\ synthOut = <<>>
  /\ SynthOthersIdle

GenerateUnifiedDiff ==
  /\ synthOut = <<>>
  /\ synthOut' = <<generateUnifiedDiff(synthArgs.filePath, synthArgs.oldContent,
                                       synthArgs.newContent, synthArgs.isNewFile,
                                       synthArgs.contextLines)>>
  /\ UNCHANGED <<synthArgs, synthOthers>>

SynthNext == GenerateUnifiedDiff

SpecSynth == SynthInit /\ [][SynthNext]_vars

\* C10: generateUnifiedDiff on equal old and new content returns the empty
\* string, whatever the content (the empty text too), the path, isNewFile and
\* contextLines
C10_EqualContentsEmptyDiff ==
  (Len(synthOut) = 1 /\ synthArgs.oldContent = synthArgs.newContent)
    => synthOut[1] = EmptyText

\* a call on equal contents with a repeated line, as a new file
C10_Witness ==
  /\ Len(synthOut) = 1
  /\ synthArgs.oldContent = <<"a", "b", "a">>
  /\ synthArgs.newContent = synthArgs.oldContent
  /\ synthArgs.isNewFile
  /\ synthArgs.contextLines = 0

\* a call on the empty text twice
C10_WitnessEmpty ==
  /\ Len(synthOut) = 1
  /\ synthArgs.oldContent = <<"">>
  /\ synthArgs.newContent = <<"">>

\* calls on different contents return a patch
SynthDiffers ==
  (Len(synthOut) = 1 /\ synthArgs.oldContent # synthArgs.newContent)
    => synthOut[1] # EmptyText

\* the lines of a patch text of the given kinds
LinesOfKind(text, kinds) == SelectSeq(text, LAMBDA l : l.k \in kinds)

\* C11: generateUnifiedDiff with the empty text as oldContent and another text
\* as newContent returns a patch with exactly one hunk, the hunk has no '-'
\* line and no context line, and its header has old-start 0 and old-count 0
C11_EmptyOldPureInsertion ==
  (/\ Len(synthOut) = 1
   /\ synthArgs.oldContent = <<"">>
   /\ synthArgs.newContent # <<"">>)
    => /\ Len(LinesOfKind(synthOut[1], {"@@"})) = 1
       /\ Len(LinesOfKind(synthOut[1], {"-", " "})) = 0
       /\ \A i \in 1..Len(synthOut[1]) :
            synthOut[1][i].k = "@@" => synthOut[1][i].os = 0 /\ synthOut[1][i].oc = 0

\* what the call returns on the empty text and 'a\nb\n' with three lines of
\* context: the empty last line of the new text is matched with the one line
\* of the old text and becomes a context line
EmptyOldExample ==
  (/\ Len(synthOut) = 1
   /\ synthArgs.oldContent = <<"">>
   /\ synthArgs.newContent = <<"a", "b", "">>
   /\ synthArgs.contextLines = 3
   /\ ~synthArgs.isNewFile)
    => synthOut[1] = PlusNewline(<<GitLine(synthArgs.filePath),
                                   Ln("index", "0000000..0000000 100644"),
                                   MinusA(synthArgs.filePath), PlusB(synthArgs.filePath),
                                   Hdr(1, 1, 1, 3, ""), Add("a"), Add("b"), Ctx("")>>)

\* --------------------------------------------------- splitCommit's retry loop
\* The diffs of a plan are texts of the character alphabet of validateAndFixPatch.
MaxRetries == 2
MaxSplits == 2

ValidDiff ==
  <<"diff --git", Newline, "---", Space, Newline, "+++", Space, Newline, "@@", "@@", Newline>>
EscapedDiff ==
  <<"diff --git", Backslash, "n", "---", Space, Backslash, "n", "+++", Space,
    Backslash, "n", "@@", "@@">>
HeaderlessDiff == <<"---", Space, Newline, "+++", Space, Newline, "@@", "@@", Newline>>
HunklessDiff == <<"diff --git", Newline, "---", Space, Newline, "+++", Space, Newline>>
OracleDiffs == {ValidDiff, EscapedDiff, HeaderlessDiff, HunklessDiff}

\* what generateSplitPlan may return: null, or a plan of 0..MaxSplits splits
SplitPlans ==
  {NoPlan} \cup
  {[ok |-> TRUE, splits |-> ds] : ds \in UNION {[1..n -> OracleDiffs] : n \in 0..MaxSplits}}

\* plan.splits.map((split, i) => validateAndFixPatch(split.diff, i))
ValidationResults(p) ==
  [i \in 1..Len(p.splits) |-> validateAndFixPatch(p.splits[i], i - 1)]

\* the errors of the first patch only
ErrorsOfMutFirstOnly(validationResults) ==
  IF Len(validationResults) = 0 THEN <<>> ELSE validationResults[1].errors

\* a list of errors that holds the errors of every patch but the last
ErrorsOfMutButLast(validationResults) ==
  LET RECURSIVE Cat(_)
      Cat(i) == IF i >= Len(validationResults) THEN <<>>
                ELSE validationResults[i].errors \o Cat(i + 1)
  IN Cat(1)

\* validationResults.flatMap(r => r.errors)
ErrorsOf(validationResults) ==
  Flatten([i \in 1..Len(validationResults) |-> validationResults[i].errors])

\* a loop counter that 'continue' leaves as it is
AfterContinueMutSame(a) == a

\* the loop counter after 'continue': the for statement's attempt++
AfterContinue(a) == a + 1

RetryInit ==
  /\ \E maxRetries \in 0..MaxRetries, dryRun \in BOOLEAN :
       retryArgs = [maxRetries |-> maxRetries, dryRun |-> dryRun]
  /\ attempt = 0
  /\ lastErrors = <<>>
  /\ requests = <<>>
  /\ retryPlan = NoPlan
  /\ retryPc = "loop"
  /\ gitLog = <<>>
  /\ RetryOthersIdle

\* one turn of the loop of splitCommit: the request with lastErrors, the
\* oracle's answer, the validation of its patches, and what the turn ends in
Attempt ==
  /\ retryPc = "loop"
  /\ attempt <= retryArgs.maxRetries
  /\ \E answer \in SplitPlans :
       LET validationResults == ValidationResults(answer)
           errors == ErrorsOf(validationResults)
       IN /\ requests' = Append(requests, [previousErrors |-> lastErrors, answer |-> answer])
          /\ IF ~answer.ok
             THEN /\ retryPlan' = answer
                  /\ lastErrors' = lastErrors
                  /\ attempt' = AfterContinue(attempt)
                  /\ retryPc' = IF AfterContinue(attempt) <= retryArgs.maxRetries
                                THEN "loop" ELSE "returned false"
             ELSE IF Len(answer.splits) < 2
             THEN /\ retryPlan' = answer
                  /\ lastErrors' = lastErrors
                  /\ attempt' = attempt
                  /\ retryPc' = "returned true"
             ELSE IF Len(errors) = 0
             THEN /\ retryPlan' = [ok |-> TRUE,
                                   splits |-> [i \in 1..Len(answer.splits) |->
                                                 validationResults[i].fixed]]
                  /\ lastErrors' = errors
                  /\ attempt' = attempt
                  /\ retryPc' = "executeSplit"
             ELSE /\ retryPlan' = answer
                  /\ lastErrors' = errors
                  /\ attempt' = IF attempt = retryArgs.maxRetries THEN attempt ELSE attempt + 1
                  /\ retryPc' = IF attempt = retryArgs.maxRetries
                                THEN "returned false" ELSE "loop"
  /\ UNCHANGED <<retryArgs, gitLog>>
  /\ UNCHANGED retryOthers

\* the git commands of n whole turns of executeSplit's loop over the patches
RECURSIVE AppliedTurns(_)
AppliedTurns(n) ==
  IF n = 0 THEN <<>>
  ELSE AppliedTurns(n - 1) \o <<"apply --check", "apply", "add", "commit">>

\* executeSplit for the plan of splitCommit: the user's answer, git status and
\* the outcome of each git command are the environment's
ExecuteSplit ==
  /\ retryPc = "executeSplit"
  /\ IF retryArgs.dryRun
     THEN /\ retryPc' = "returned true"
          /\ gitLog' = gitLog
     ELSE \/ /\ retryPc' = "returned false"      \* the answer is not 'y'
             /\ gitLog' = gitLog
          \/ /\ retryPc' = "returned false"      \* uncommitted changes
             /\ gitLog' = <<"status">>
          \/ /\ retryPc' = "returned false"      \* the reset fails
             /\ gitLog' = <<"status", "reset">>
          \/ \E n \in 0..(Len(retryPlan.splits) - 1) :
               \/ /\ retryPc' = "returned false"  \* git apply --check rejects patch n+1
                  /\ gitLog' = <<"status", "reset">> \o AppliedTurns(n) \o <<"apply --check">>
               \/ /\ retryPc' = "returned false"  \* git commit fails for patch n+1
                  /\ gitLog' = <<"status", "reset">> \o AppliedTurns(n + 1)
          \/ /\ retryPc' = "returned true"
             /\ gitLog' = <<"status", "reset">> \o AppliedTurns(Len(retryPlan.splits))
                            \o <<"log">>
  /\ UNCHANGED <<retryArgs, attempt, lastErrors, requests, retryPlan>>
  /\ UNCHANGED retryOthers

RetryNext == Attempt \/ ExecuteSplit

SpecRetry == RetryInit /\ [][RetryNext]_vars

\* the plan's patches all pass validateAndFixPatch
AllValidate(answer) == answer.ok /\ ErrorsOf(ValidationResults(answer)) = <<>>

Returned == retryPc \in {"returned true", "returned false"}

Mutating == {"reset", "apply", "commit"}

\* C12: splitCommit sends at most maxRetries + 1 split-plan requests (at most 3
\* with the default maxRetries = 2); every request, also one the oracle answers
\* with no plan, uses up one attempt; and when it has returned and no request
\* was answered with a plan whose patches all validate, it has run no git
\* reset, git apply or git commit, and it has returned failure unless the last
\* answer was a plan of fewer than two splits, for which it returns success
C12_RetryBudget ==
  /\ Len(requests) <= retryArgs.maxRetries + 1
  /\ retryArgs.maxRetries = 2 => Len(requests) <= 3
  /\ retryPc = "loop" => attempt = Len(requests)
  /\ (Returned /\ \A r \in 1..Len(requests) : ~AllValidate(requests[r].answer))
       => /\ \A g \in 1..Len(gitLog) : gitLog[g] \notin Mutating
          /\ \/ retryPc = "returned false"
             \/ /\ retryPc = "returned true"
                /\ Len(requests[Len(requests)].answer.splits) < 2

\* the statement of C12 as written: with no validating plan the function
\* returns failure
C12_AsStated ==
  /\ Len(requests) <= retryArgs.maxRetries + 1
  /\ retryPc = "loop" => attempt = Len(requests)
  /\ (Returned /\ \A r \in 1..Len(requests) : ~AllValidate(requests[r].answer))
       => /\ \A g \in 1..Len(gitLog) : gitLog[g] \notin Mutating
          /\ retryPc = "returned false"

\* the default budget is used up by a null answer, an invalid plan and a null
\* answer, and the function has returned failure
C12_Witness ==
  /\ retryArgs.maxRetries = 2
  /\ Len(requests) = 3
  /\ ~requests[1].answer.ok
  /\ requests[2].answer.ok /\ Len(requests[2].answer.splits) = 2
  /\ ~AllValidate(requests[2].answer)
  /\ ~requests[3].answer.ok
  /\ retryPc = "returned false"
  /\ gitLog = <<>>

\* the error strings of the request's answer, patch by patch
ErrorSetOf(request) ==
  UNION {{validateAndFixPatch(request.answer.splits[i], i - 1).errors[e] :
            e \in 1..Len(validateAndFixPatch(request.answer.splits[i], i - 1).errors)}
         : i \in 1..Len(request.answer.splits)}

Carried(k) == {requests[k].previousErrors[e] : e \in 1..Len(requests[k].previousErrors)}

\* the earlier requests that were answered with a plan (of invalid patches:
\* after any other plan the loop is left)
PlansBefore(k) == {j \in 1..(k - 1) : requests[j].answer.ok}

\* C13: the first split-plan request carries no errors; a later request carries
\* the validation errors of the most recent earlier attempt that was answered
\* with a plan, and only those (none when every earlier answer was no plan)
C13_RetryFeedback ==
  \A k \in 1..Len(requests) :
     /\ k = 1 => requests[k].previousErrors = <<>>
     /\ PlansBefore(k) = {} => Carried(k) = {}
     /\ PlansBefore(k) # {} =>
          Carried(k) = ErrorSetOf(requests[CHOOSE j \in PlansBefore(k) :
                                              \A i \in PlansBefore(k) : i <= j])

\* the statement of C13 as written: a request carries the errors of every
\* earlier attempt that produced an invalid plan
C13_AsStated ==
  \A k \in 1..Len(requests) :
     /\ k = 1 => requests[k].previousErrors = <<>>
     /\ \A j \in PlansBefore(k) : ErrorSetOf(requests[j]) \subseteq Carried(k)

\* two invalid plans with different errors, then a third request that carries
\* the errors of the second plan and lacks one of the first
C13_Witness ==
  /\ Len(requests) = 3
  /\ requests[1].answer.ok /\ requests[2].answer.ok
  /\ ErrorSetOf(requests[1]) # {}
  /\ ErrorSetOf(requests[2]) # {}
  /\ Carried(3) = ErrorSetOf(requests[2])
  /\ ~(ErrorSetOf(requests[1]) \subseteq Carried(3))

\* a request after a null answer still carries the errors of the plan before
C13_WitnessNull ==
  /\ Len(requests) = 3
  /\ requests[1].answer.ok /\ ~requests[2].answer.ok
  /\ Carried(3) = ErrorSetOf(requests[1])
  /\ Carried(3) # {}

\* the work tree after the commits of the first n patches of the plan
RECURSIVE TreeAfter(_)
TreeAfter(n) ==
  IF n = 0 THEN repo.parent ELSE GitApply(TreeAfter(n - 1), plan.splits[n]).tree

\* executeSplit has returned because git apply --check rejected patch created + 1
CheckRejected ==
  /\ pc = "failed"
  /\ plan.ok /\ Len(plan.splits) >= 2
  /\ ~GitApply(tree, plan.splits[created + 1]).ok

\* C14: when git apply --check rejects patch i of the plan, executeSplit
\* returns failure; the i-1 commits made before stay (the tree is the one
\* after patches 1..i-1, not the parent's), patch i and the later ones are
\* neither applied nor committed, and every saved patch file is still there
C14_ApplyFailureKeepsProgress ==
  CheckRejected =>
    /\ created < Len(plan.splits)
    /\ tree = TreeAfter(created)
    /\ patchFiles = plan.splits

\* the second patch is rejected after the first one was committed
C14_Witness ==
  /\ CheckRejected
  /\ created = 1
  /\ tree # repo.parent
  /\ Len(patchFiles) = 2

\* --------------------------------------------------------- classifyHunkLines
MaxHunkLines == 3
MaxItems == 2
MaxPlanCommits == 2

CommitIds == <<"commit_1", "commit_2">>
UnknownCommit == "commit_9"

\* hunk.content: the lines of a hunk after its header
HunkContents ==
  UNION {[1..n -> {Ctx("a"), Add("b"), Del("b"), EmptyLine}] : n \in 1..MaxHunkLines}

\* an element of the array in the oracle's response: null, or an object whose
\* 'line' may not be a number and whose 'commit' may not be a string
NullItem ==
  [isNull |-> TRUE, lineIsNumber |-> FALSE, line |-> 0, commitIsString |-> FALSE, commit |-> ""]
Item(line, commit) ==
  [isNull |-> FALSE, lineIsNumber |-> TRUE, line |-> line,
   commitIsString |-> TRUE, commit |-> commit]
ResponseItems ==
  {NullItem}
    \cup {Item(l, c) : l \in (0 - 1)..MaxHunkLines,
                       c \in {CommitIds[1], CommitIds[2], UnknownCommit}}
    \cup {[Item(0, CommitIds[2]) EXCEPT !.lineIsNumber = FALSE],
          [Item(0, CommitIds[2]) EXCEPT !.commitIsString = FALSE]}

\* what callLLM may resolve to: null, a text with no '[...]', a text whose
\* '[...]' is not JSON, or a text with a JSON array
NoResponse == [kind |-> "null", items |-> <<>>]
NoArrayResponse == [kind |-> "no array", items |-> <<>>]
NotJsonResponse == [kind |-> "not JSON", items |-> <<>>]
Responses ==
  {NoResponse, NoArrayResponse, NotJsonResponse}
    \cup {[kind |-> "array", items |-> is] :
            is \in UNION {[1..n -> ResponseItems] : n \in 0..MaxItems}}

\* the indices i, from 0, of the lines that start with '+' or '-'
ChangedLineIndices(hunkLines) ==
  SelectSeq([i \in 1..Len(hunkLines) |-> i - 1],
            LAMBDA i : StartsWith(hunkLines[i + 1], "+") \/ StartsWith(hunkLines[i + 1], "-"))

\* changedLineIndices.map(idx => ({lineIndex: idx, commitId: commits[0].id}))
AllToFirst(changedLineIndices, commits) ==
  [i \in 1..Len(changedLineIndices) |->
     [lineIndex |-> changedLineIndices[i], commitId |-> commits[1]]]

\* a conversion that keeps a commit id the plan does not have
ConvertItemMutKeepsUnknown(item, commits) ==
  [lineIndex |-> item.line, commitId |-> item.commit]

\* the entry pushed for an item of the array
ConvertItem(item, commits) ==
  [lineIndex |-> item.line,
   commitId |-> IF \E c \in 1..Len(commits) : commits[c] = item.commit
                THEN item.commit ELSE commits[1]]

\* the loop over the parsed array
ConvertItems(items, commits) ==
  LET typed == SelectSeq(items, LAMBDA item : item.lineIsNumber /\ item.commitIsString)
  IN [i \in 1..Len(typed) |-> ConvertItem(typed[i], commits)]

\* the changed lines the array did not classify, given to the first commit
Unclassified(pushed, changedLineIndices, commits) ==
  AllToFirst(SelectSeq(changedLineIndices,
                       LAMBDA idx : \A r \in 1..Len(pushed) : pushed[r].lineIndex # idx),
             commits)

classifyHunkLines(hunk, commits, response) ==
  LET changedLineIndices == ChangedLineIndices(hunk.content)
  IN IF Len(changedLineIndices) = 0 THEN <<>>
     ELSE IF Len(commits) = 1 THEN AllToFirst(changedLineIndices, commits)
     ELSE IF response.kind # "array" THEN AllToFirst(changedLineIndices, commits)
     ELSE IF \E i \in 1..Len(response.items) : response.items[i].isNull
          THEN AllToFirst(changedLineIndices, commits)   \* item.line throws
     ELSE ConvertItems(response.items, commits)
            \o Unclassified(ConvertItems(response.items, commits), changedLineIndices, commits)

ClassifyInit ==
  /\ \E content \in HunkContents, n \in 1..MaxPlanCommits, response \in Responses :
       classifyArgs = [hunk |-> [id |-> 0, filePath |-> Paths[1], content |-> content],
                       commits |-> SubSeq(CommitIds, 1, n),
                       response |-> response]
  /\ classifyOut = <<>>
  /\ ClassifyOthersIdle

ClassifyHunkLines ==
  /\ classifyOut = <<>>
  /\ classifyOut' = <<classifyHunkLines(classifyArgs.hunk, classifyArgs.commits,
                                        classifyArgs.response)>>
  /\ UNCHANGED <<classifyArgs, classifyOthers>>

ClassifyNext == ClassifyHunkLines

SpecClassify == ClassifyInit /\ [][ClassifyNext]_vars

\* the line indices of the '+' and '-' lines of the hunk, as a set
ChangedSet == {i \in 0..(Len(classifyArgs.hunk.content) - 1) :
                 classifyArgs.hunk.content[i + 1].k \in {"+", "-"}}

PlanIds == {classifyArgs.commits[c] : c \in 1..Len(classifyArgs.commits)}

\* C15: whatever the oracle's outcome, every '+' and '-' line index of the hunk
\* is in the result of classifyHunkLines and every commitId of the result is an
\* id of the plan; with no response, no JSON array or a parse failure, the
\* result gives exactly the changed lines, all to the first plan entry
C15_NeverDropsLines ==
  Len(classifyOut) = 1 =>
    LET result == classifyOut[1]
    IN /\ \A idx \in ChangedSet : \E r \in 1..Len(result) : result[r].lineIndex = idx
       /\ \A r \in 1..Len(result) : result[r].commitId \in PlanIds
       /\ classifyArgs.response.kind # "array" =>
            /\ {result[r].lineIndex : r \in 1..Len(result)} = ChangedSet
            /\ Len(result) = Cardinality(ChangedSet)
            /\ \A r \in 1..Len(result) : result[r].commitId = classifyArgs.commits[1]

\* an array that names an unknown commit for one changed line and omits another
C15_Witness ==
  /\ Len(classifyOut) = 1
  /\ Len(classifyArgs.commits) = 2
  /\ Cardinality(ChangedSet) = 2
  /\ classifyArgs.response.kind = "array"
  /\ Len(classifyArgs.response.items) = 1
  /\ classifyArgs.response.items[1].line \in ChangedSet
  /\ classifyArgs.response.items[1].lineIsNumber
  /\ classifyArgs.response.items[1].commit = UnknownCommit
  /\ Len(classifyOut[1]) = 2

\* the oracle gave no response for a hunk with changed lines
C15_WitnessFallback ==
  /\ Len(classifyOut) = 1
  /\ Len(classifyArgs.commits) = 2
  /\ classifyArgs.response = NoResponse
  /\ Len(classifyOut[1]) = 2

\* C16: in the result of classifyHunkLines each '+' and '-' line index of the
\* hunk is in exactly one entry, and no entry has the index of a context line
\* or an index outside the hunk
C16_ClassificationIsFunction ==
  Len(classifyOut) = 1 =>
    LET result == classifyOut[1]
    IN /\ \A idx \in ChangedSet :
            Cardinality({r \in 1..Len(result) : result[r].lineIndex = idx}) = 1
       /\ \A r \in 1..Len(result) : result[r].lineIndex \in ChangedSet

\* ------------------------------------------ classifyAllHunks, lineLevelSplit
MaxBatchHunks == 6
MaxConcurrency == 5
DefaultConcurrency == 5

ChangedContent == <<Ctx("a"), Add("b")>>
ContextContent == <<Ctx("a")>>

\* the files of parseDiffIntoHunks: n hunks with the ids 0..n-1, the first
\* inFirst of them in the first file, the hunk ctxAt with context lines only
BatchFiles(n, inFirst, ctxAt) ==
  LET HunkOf(p) == [id |-> p - 1,
                    content |-> IF p = ctxAt THEN ContextContent ELSE ChangedContent]
      first == [filePath |-> Paths[1], hunks |-> [p \in 1..inFirst |-> HunkOf(p)]]
      second == [filePath |-> Paths[2],
                 hunks |-> [p \in 1..(n - inFirst) |-> HunkOf(inFirst + p)]]
  IN IF inFirst = n THEN <<first>> ELSE <<first, second>>

\* allHunks: the hunks of the files, in order, each with its file's path
BatchAllHunks(files) ==
  Flatten([f \in 1..Len(files) |->
             [h \in 1..Len(files[f].hunks) |->
                [hunk |-> files[f].hunks[h], filePath |-> files[f].filePath]]])

\* what the oracle answers to a classification request
BatchResponses == {NoResponse, [kind |-> "array", items |-> <<Item(1, CommitIds[2])>>]}

\* a batch of all the hunks that are left
BatchOfMutAll(i, window, n) == (i + 1)..n

\* allHunks.slice(i, i + concurrency), as positions from 1
BatchOf(i, window, n) == (i + 1)..Min(i + window, n)

\* classifyHunkLines sends a request unless it returns before callLLM
NeedsRequest(hunk, commits) ==
  Len(ChangedLineIndices(hunk.content)) > 0 /\ Len(commits) > 1

\* the value the promise of a hunk resolves to
HunkResult(entry, commits, response) ==
  [hunkId |-> entry.hunk.id,
   filePath |-> entry.filePath,
   lines |-> classifyHunkLines(entry.hunk, commits, response)]

Pending == [settled |-> FALSE, value |-> <<>>]
Settled(value) == [settled |-> TRUE, value |-> value]

\* batch.map(async ...): the promises of the batch that starts after i hunks
PromisesOf(i) ==
  LET allHunks == BatchAllHunks(batchArgs.files)
      batch == BatchOf(i, batchArgs.concurrency, Len(allHunks))
  IN [p \in batch |->
        IF NeedsRequest(allHunks[p].hunk, batchArgs.commits) THEN Pending
        ELSE Settled(HunkResult(allHunks[p], batchArgs.commits, NoResponse))]

RequestsOf(i) ==
  LET allHunks == BatchAllHunks(batchArgs.files)
  IN {p \in BatchOf(i, batchArgs.concurrency, Len(allHunks)) :
        NeedsRequest(allHunks[p].hunk, batchArgs.commits)}

\* the values of the promises in the reverse of the order of the batch
BatchValuesMutReversed(promises, i) ==
  [k \in 1..Cardinality(DOMAIN promises) |->
     promises[i + Cardinality(DOMAIN promises) + 1 - k].value]

\* what Promise.all resolves to: the values in the order of the batch
BatchValues(promises, i) ==
  [k \in 1..Cardinality(DOMAIN promises) |-> promises[i + k].value]

BatchInit ==
  /\ \E n \in 1..MaxBatchHunks, window \in 1..MaxConcurrency :
       \E inFirst \in 1..n, ctxAt \in 0..n :
          batchArgs = [files |-> BatchFiles(n, inFirst, ctxAt),
                       commits |-> CommitIds,
                       concurrency |-> window]
  /\ batchStart = 0
  /\ inFlight = {}
  /\ batchResults = <<>>
  /\ results = <<>>
  /\ phase = "phase 2"
  /\ overtaken = FALSE
  /\ BatchOthersIdle

\* lineLevelSplit calls classifyAllHunks, which sends the requests of the
\* first batch
ClassifyAllHunks ==
  /\ phase = "phase 2"
  /\ phase' = "classifying"
  /\ batchResults' = PromisesOf(0)
  /\ inFlight' = RequestsOf(0)
  /\ UNCHANGED <<batchArgs, batchStart, results, overtaken>>
  /\ UNCHANGED batchOthers

\* callLLM resolves for the request of one hunk, with a text or with null
Respond ==
  /\ phase = "classifying"
  /\ \E p \in inFlight, response \in BatchResponses :
       /\ inFlight' = inFlight \ {p}
       /\ batchResults' =
            [batchResults EXCEPT
               ![p] = Settled(HunkResult(BatchAllHunks(batchArgs.files)[p],
                                         batchArgs.commits, response))]
       /\ overtaken' = (overtaken \/ \E q \in inFlight : q < p)
  /\ UNCHANGED <<batchArgs, batchStart, results, phase>>
  /\ UNCHANGED batchOthers

\* Promise.all resolves: the results of the batch are pushed, and the loop
\* sends the requests of the next batch or classifyAllHunks returns
BatchSettled ==
  /\ phase = "classifying"
  /\ \A p \in DOMAIN batchResults : batchResults[p].settled
  /\ results' = results \o BatchValues(batchResults, batchStart)
  /\ batchStart' = batchStart + batchArgs.concurrency
  /\ IF batchStart + batchArgs.concurrency < Len(BatchAllHunks(batchArgs.files))
     THEN /\ batchResults' = PromisesOf(batchStart + batchArgs.concurrency)
          /\ inFlight' = RequestsOf(batchStart + batchArgs.concurrency)
          /\ phase' = phase
     ELSE /\ batchResults' = <<>>
          /\ inFlight' = {}
          /\ phase' = "phase 3"
  /\ UNCHANGED <<batchArgs, overtaken>>
  /\ UNCHANGED batchOthers

\* lineLevelSplit goes on with the classifications: extractChanges,
\* buildPatches, and the plan it returns
ExtractAndAssemble ==
  /\ phase = "phase 3"
  /\ phase' = "done"
  /\ UNCHANGED <<batchArgs, batchStart, inFlight, batchResults, results, overtaken>>
  /\ UNCHANGED batchOthers

BatchNext == ClassifyAllHunks \/ Respond \/ BatchSettled \/ ExtractAndAssemble

SpecBatch == BatchInit /\ [][BatchNext]_vars

\* C17: at most 'concurrency' classification requests are in flight (at most 5
\* with the default), and while a request of a batch is in flight every hunk
\* of the batches before has its result: the requests in flight are of hunks
\* of the current batch only
C17_ConcurrencyWindow ==
  /\ Cardinality(inFlight) <= batchArgs.concurrency
  /\ batchArgs.concurrency = DefaultConcurrency => Cardinality(inFlight) <= 5
  /\ inFlight # {} =>
       /\ Len(results) = batchStart
       /\ \A p \in inFlight : batchStart < p /\ p <= batchStart + batchArgs.concurrency
       /\ \A q \in 1..batchStart : results[q].hunkId = q - 1

\* the default window is full, with a second batch still to come
C17_Witness ==
  /\ batchArgs.concurrency = DefaultConcurrency
  /\ Len(BatchAllHunks(batchArgs.files)) = 6
  /\ Cardinality(inFlight) = 5

\* a request of the second batch is in flight
C17_WitnessSecondBatch ==
  /\ batchArgs.concurrency = 2
  /\ batchStart = 2
  /\ inFlight = {3, 4}
  /\ Len(results) = 2

\* the results are those of the first hunks, one each, in parse order
InParseOrder ==
  LET allHunks == BatchAllHunks(batchArgs.files)
  IN /\ Len(results) <= Len(allHunks)
     /\ \A q \in 1..Len(results) :
          /\ results[q].hunkId = allHunks[q].hunk.id
          /\ results[q].filePath = allHunks[q].filePath

\* C18: in whatever order the requests complete, the results of
\* classifyAllHunks are one per parsed hunk, each with its hunk's id, in the
\* parse order of the hunks; and lineLevelSplit extracts and assembles only
\* when the result of every hunk is there
C18_DeterministicMerge ==
  /\ InParseOrder
  /\ phase \in {"phase 3", "done"} =>
       /\ Len(results) = Len(BatchAllHunks(batchArgs.files))
       /\ inFlight = {}

\* six hunks in batches of five, a request overtaken by a later one, and
\* lineLevelSplit has gone through its last phases
C18_Witness ==
  /\ phase = "done"
  /\ overtaken
  /\ batchArgs.concurrency = DefaultConcurrency
  /\ Len(results) = 6
  /\ \A q \in 1..6 : results[q].hunkId = q - 1

\* the fairness the scheduling gives: the program's own steps are taken, the
\* oracle's answer to a request is not the program's to give
SpecBatchLive ==
  /\ BatchInit /\ [][BatchNext]_vars
  /\ WF_vars(ClassifyAllHunks) /\ WF_vars(BatchSettled) /\ WF_vars(ExtractAndAssemble)

\* the same with an oracle that answers every request
SpecBatchAnswered == SpecBatchLive /\ WF_vars(Respond)

\* C19: classifyAllHunks and lineLevelSplit eventually finish, also when the
\* oracle never answers a request
C19_EventuallyFinishes == <>(phase = "done")

\* -------------------------------------------------------- parseDiffIntoHunks
\* a hunk of context lines only
ShapeContext == [body |-> <<Ctx("a"), Ctx("b")>>, label |-> "", bad |-> FALSE]
ParseShapes == Shapes \cup {ShapeContext}

ParseFileChanges(path, n) ==
  {[path |-> path, isNew |-> FALSE, hunks |-> hs] : hs \in [1..n -> ParseShapes]}

\* the changes of at most MaxFiles files with at most MaxHunks hunks in all
RECURSIVE ParseChangesFrom(_, _)
ParseChangesFrom(fileNo, hunksLeft) ==
  IF fileNo > MaxFiles \/ hunksLeft = 0 THEN {<<>>}
  ELSE {<<>>} \cup
       UNION {{<<fc>> \o rest : fc \in ParseFileChanges(Paths[fileNo], n),
                                rest \in ParseChangesFrom(fileNo + 1, hunksLeft - n)}
              : n \in 1..hunksLeft}

ParseInit ==
  /\ \E change \in ParseChangesFrom(1, MaxHunks) \ {<<>>} : parseArg = GitShow(change)
  /\ parseOut = <<>>
  /\ ParseOthersIdle

ParseDiffIntoHunks ==
  /\ parseOut = <<>>
  /\ parseOut' = <<parseDiffIntoHunks(parseArg)>>
  /\ UNCHANGED <<parseArg, parseOthers>>

ParseNext == ParseDiffIntoHunks

SpecParse == ParseInit /\ [][ParseNext]_vars

\* C20: every hunk that parseDiffIntoHunks returns has a '+' or a '-' line in
\* its content, and every file it returns has a hunk
C20_ContextOnlyDropped ==
  Len(parseOut) = 1 =>
    \A f \in 1..Len(parseOut[1]) :
       /\ Len(parseOut[1][f].hunks) > 0
       /\ \A h \in 1..Len(parseOut[1][f].hunks) :
            CountKinds(parseOut[1][f].hunks[h].content, {"+", "-"}) > 0

\* a diff whose one hunk is ' a', ' b' is parsed into one file with that hunk
ContextOnlyExample ==
  (/\ Len(parseOut) = 1
   /\ parseArg = GitShow(<<[path |-> Paths[1], isNew |-> FALSE, hunks |-> <<ShapeContext>>]>>))
    => /\ Len(parseOut[1]) = 1
       /\ Len(parseOut[1][1].hunks) = 1
       /\ parseOut[1][1].hunks[1].content = <<Ctx("a"), Ctx("b")>>

\* ------------------------------------------- splitting a commit named by a ref
\* The history of the branch, oldest commit first: the commit to split follows
\* its parent, and commits made after it may follow.  executeSplit requires a
\* clean work tree, so the work tree is the tree of the last commit.
Commit(id, content) == [id |-> id, tree |-> content]

SplitIds == <<"split_1", "split_2">>

\* what was committed after the commit to split: nothing, its revert, or its
\* revert and the same change again
LaterCommits(change) ==
  {<<>>,
   <<Commit("D", ParentTree(change))>>,
   <<Commit("D", ParentTree(change)), Commit("E", CommitTree(change))>>}

\* the changes of two well-formed hunks
RefChanges ==
  {change \in Changes :
     /\ TotalHunks(parseDiffIntoHunks(GitShow(change))) = 2
     /\ \A i \in 1..Len(change) : \A j \in 1..Len(change[i].hunks) : ~change[i].hunks[j].bad}

\* the plan of the commit's diff: one patch per hunk
RefPlan(change) ==
  LET files == parseDiffIntoHunks(GitShow(change))
  IN [n \in 1..TotalHunks(files) |-> rebuildPatchFromHunks(files, {n - 1})]

RefInit ==
  /\ \E change \in RefChanges : \E later \in LaterCommits(change) :
       /\ refArgs = [commitRef |-> "C", change |-> change]
       /\ history = <<Commit("base", ParentTree(change)), Commit("C", CommitTree(change))>>
                      \o later
  /\ refPc = "splitCommit"
  /\ RefOthersIdle

HeadOf(commits) == commits[Len(commits)]

\* splitCommit: rev-parse of the ref, the commit's info and diff, the plan
SplitCommitRef ==
  /\ refPc = "splitCommit"
  /\ \E i \in 1..Len(history) : history[i].id = refArgs.commitRef
  /\ refPc' = IF Len(RefPlan(refArgs.change)) < 2 THEN "returned true" ELSE "executeSplit"
  /\ UNCHANGED <<refArgs, history>>
  /\ UNCHANGED refOthers

\* executeSplit: git reset --hard HEAD~1 (a run that is not a dry run, on a
\* clean work tree, with the prompt confirmed)
ResetHead ==
  /\ refPc = "executeSplit"
  /\ history' = SubSeq(history, 1, Len(history) - 1)
  /\ refPc' = "applying"
  /\ UNCHANGED refArgs
  /\ UNCHANGED refOthers

SplitsMade == Cardinality({i \in 1..Len(history) :
                             \E n \in 1..Len(SplitIds) : history[i].id = SplitIds[n]})

\* executeSplit: one turn of the loop, git apply --check, apply, add, commit
ApplyNext ==
  /\ refPc = "applying"
  /\ LET n == SplitsMade + 1
         applied == GitApply(HeadOf(history).tree, RefPlan(refArgs.change)[n])
     IN IF ~applied.ok \/ applied.tree = HeadOf(history).tree
        THEN /\ refPc' = "returned false"
             /\ history' = history
        ELSE /\ history' = Append(history, Commit(SplitIds[n], applied.tree))
             /\ refPc' = IF n = Len(RefPlan(refArgs.change)) THEN "returned true"
                         ELSE "applying"
  /\ UNCHANGED refArgs
  /\ UNCHANGED refOthers

RefNext == SplitCommitRef \/ ResetHead \/ ApplyNext

SpecRef == RefInit /\ [][RefNext]_vars

RefSucceeded == refPc = "returned true" /\ SplitsMade = Len(RefPlan(refArgs.change))

\* C21: when the split of a commit named by any ref completes, that commit is
\* gone from the history and the new commits, in plan order, follow its parent
C21_SplitsTheNamedCommit ==
  RefSucceeded =>
    /\ \A i \in 1..Len(history) : history[i].id # refArgs.commitRef
    /\ [i \in 1..Len(history) |-> history[i].id] = <<"base">> \o SplitIds

\* a split of the last commit that completed
C21_HeadSplit ==
  RefSucceeded /\ [i \in 1..Len(history) |-> history[i].id] = <<"base">> \o SplitIds

\* --------------------------------------------- the line-level patch assembly
\* filterHunk: the hunk with only the selected changes; an addition that is
\* not selected is left out, a deletion that is not selected becomes context
RECURSIVE FilterLines(_, _, _)
FilterLines(hunkLines, selectedIndices, lineIdx) ==
  IF lineIdx >= Len(hunkLines) THEN <<>>
  ELSE LET line == hunkLines[lineIdx + 1]
           rest == FilterLines(hunkLines, selectedIndices, lineIdx + 1)
       IN IF line = EmptyLine /\ lineIdx = Len(hunkLines) - 1 THEN rest
          ELSE IF StartsWith(line, "+")
               THEN (IF lineIdx \in selectedIndices THEN <<line>> ELSE <<>>) \o rest
          ELSE IF StartsWith(line, "-")
               THEN (IF lineIdx \in selectedIndices THEN <<line>> ELSE <<Ctx(line.t)>>) \o rest
          ELSE IF StartsWith(line, " ") THEN <<line>> \o rest
          ELSE rest

filterHunk(hunk, selectedIndices) ==
  LET hunkLines == hunk.content
      filteredLines == FilterLines(hunkLines, selectedIndices, 0)
      oldStart == hunk.header.os
      newStart == hunk.header.ns
      suffix == hunk.header.t
      oldCount == CountKinds(filteredLines, {" ", "-"})
      newCount == CountKinds(filteredLines, {" ", "+"})
      hasChanges == \E i \in 1..Len(filteredLines) : filteredLines[i].k \in {"+", "-"}
  IN IF ~HeaderMatches(hunk.header)
     THEN [header |-> hunk.header, content |-> hunk.content, hasChanges |-> FALSE]
     ELSE [header |-> Hdr(oldStart, oldCount, newStart, newCount, suffix),
           content |-> JoinLines(filteredLines),
           hasChanges |-> hasChanges]

IndexZeros == Ln("index", "0000000..0000000")
IndexZerosMode == Ln("index", "0000000..0000000 100644")

\* buildPatchFromHunks: the file's patch text from its filtered hunks
buildPatchFromHunks(file, filteredHunks) ==
  LET isNewFile == \E i \in 1..Len(file.fileHeader) :
                     file.fileHeader[i].k \in {"new file mode", "--- /dev/null"}
      head == IF isNewFile
              THEN <<GitLine(file.filePath), Ln("new file mode", "100644"), IndexZeros,
                     MinusDevNull, PlusB(file.filePath)>>
              ELSE <<GitLine(file.filePath), IndexZerosMode, MinusA(file.filePath),
                     PlusB(file.filePath)>>
      HunkParts(h) == IF h.content = <<EmptyLine>> THEN <<h.header>>
                      ELSE <<h.header>> \o h.content
  IN IF Len(filteredHunks) = 0 THEN <<EmptyLine>>
     ELSE PlusNewline(head \o Flatten([n \in 1..Len(filteredHunks) |->
                                         HunkParts(filteredHunks[n])]))

\* patchParts.join(''): texts that end in '\n' one after the other
RECURSIVE JoinNoSeparator(_, _)
JoinNoSeparator(patchParts, n) ==
  IF n > Len(patchParts) THEN <<EmptyLine>>
  ELSE SubSeq(patchParts[n], 1, Len(patchParts[n]) - 1) \o JoinNoSeparator(patchParts, n + 1)

\* the indices the ranges of one hunk select
SelectedOf(fileChange, hunkId) ==
  UNION {fileChange.ranges[n].startLineIdx..fileChange.ranges[n].endLineIdx :
           n \in {m \in 1..Len(fileChange.ranges) : fileChange.ranges[m].hunkId = hunkId}}

HasRanges(fileChange, hunkId) ==
  \E n \in 1..Len(fileChange.ranges) : fileChange.ranges[n].hunkId = hunkId

NoneUsed == [id \in {} |-> {}]
UsedOf(usedIndicesByHunk, hunkId) ==
  IF hunkId \in DOMAIN usedIndicesByHunk THEN usedIndicesByHunk[hunkId] ELSE {}
MarkUsed(usedIndicesByHunk, hunkId, indices) ==
  [id \in DOMAIN usedIndicesByHunk \cup {hunkId} |->
     IF id = hunkId THEN UsedOf(usedIndicesByHunk, id) \cup indices
     ELSE usedIndicesByHunk[id]]

\* what one commit still selects of a hunk, given what earlier commits used
StillSelectedMutAll(fileChange, hunkId, usedIndicesByHunk) == SelectedOf(fileChange, hunkId)

StillSelected(fileChange, hunkId, usedIndicesByHunk) ==
  SelectedOf(fileChange, hunkId) \ UsedOf(usedIndicesByHunk, hunkId)

\* the hunks of one file for one commit, from hunk i on: [hunks, used]
RECURSIVE FilterFileHunks(_, _, _, _)
FilterFileHunks(file, fileChange, i, usedIndicesByHunk) ==
  IF i > Len(file.hunks) THEN [hunks |-> <<>>, used |-> usedIndicesByHunk]
  ELSE LET hunk == file.hunks[i]
           selectedIndices == StillSelected(fileChange, hunk.id, usedIndicesByHunk)
           filtered == filterHunk(hunk, selectedIndices)
       IN IF ~HasRanges(fileChange, hunk.id) \/ selectedIndices = {} \/ ~filtered.hasChanges
          THEN FilterFileHunks(file, fileChange, i + 1, usedIndicesByHunk)
          ELSE LET rest == FilterFileHunks(file, fileChange, i + 1,
                                           MarkUsed(usedIndicesByHunk, hunk.id, selectedIndices))
               IN [hunks |-> <<[header |-> filtered.header, content |-> filtered.content]>>
                               \o rest.hunks,
                   used |-> rest.used]

\* the file patches of one commit, from file change j on: [parts, used]
RECURSIVE BuildFileChanges(_, _, _, _)
BuildFileChanges(files, fileChanges, j, usedIndicesByHunk) ==
  IF j > Len(fileChanges) THEN [parts |-> <<>>, used |-> usedIndicesByHunk]
  ELSE LET fileChange == fileChanges[j]
           found == {n \in 1..Len(files) : files[n].filePath = fileChange.filePath}
       IN IF found = {} THEN BuildFileChanges(files, fileChanges, j + 1, usedIndicesByHunk)
          ELSE LET file == files[CHOOSE n \in found : \A m \in found : n <= m]
                   filtered == FilterFileHunks(file, fileChange, 1, usedIndicesByHunk)
                   rest == BuildFileChanges(files, fileChanges, j + 1, filtered.used)
               IN [parts |-> (IF Len(filtered.hunks) > 0
                              THEN <<buildPatchFromHunks(file, filtered.hunks)>> ELSE <<>>)
                               \o rest.parts,
                   used |-> rest.used]

\* usedIndicesByHunk after the first n commits
RECURSIVE UsedAfter(_, _, _)
UsedAfter(files, commitChanges, n) ==
  IF n = 0 THEN NoneUsed
  ELSE BuildFileChanges(files, commitChanges[n].fileChanges, 1,
                        UsedAfter(files, commitChanges, n - 1)).used

\* buildPatches: one assembled patch per commit, in the order of the commits
buildPatches(files, commitChanges) ==
  [n \in 1..Len(commitChanges) |->
     [commitId |-> commitChanges[n].commitId,
      patch |-> JoinNoSeparator(
                  BuildFileChanges(files, commitChanges[n].fileChanges, 1,
                                   UsedAfter(files, commitChanges, n - 1)).parts, 1)]]

\* validatePatch: a patch is not empty and has a file header and a hunk header
validatePatch(patch) ==
  /\ \E i \in 1..Len(patch) : patch[i] # EmptyLine
  /\ \E i \in 1..Len(patch) : patch[i].k = "diff --git"
  /\ \E i \in 1..Len(patch) : patch[i].k \in {"@@", "@@bad"}

\* the ranges a commit may hold of one hunk: none, or one range that starts and
\* ends at a changed line
ChangedIdx(hunk) ==
  {i \in 0..(Len(hunk.content) - 1) : hunk.content[i + 1].k \in {"+", "-"}}

LineRange(hunkId, from, to) == [hunkId |-> hunkId, startLineIdx |-> from, endLineIdx |-> to]

RangeChoices(hunk) ==
  {<<>>} \cup {<<LineRange(hunk.id, r[1], r[2])>> :
                 r \in {q \in ChangedIdx(hunk) \X ChangedIdx(hunk) : q[1] <= q[2]}}

\* one commit's choice of ranges for every hunk
RangeAssignments(files) ==
  LET hunks == AllHunks(files)
  IN {g \in [1..Len(hunks) -> UNION {RangeChoices(hunks[n]) : n \in 1..Len(hunks)}] :
        \A n \in 1..Len(hunks) : g[n] \in RangeChoices(hunks[n])}

\* CommitChanges: the file changes of a commit are the files it has ranges in
CommitChangesOf(files, commitId, g) ==
  LET hunks == AllHunks(files)
      RangesIn(file) == Flatten([n \in 1..Len(hunks) |->
                                   IF hunks[n].filePath = file.filePath THEN g[n] ELSE <<>>])
      all == [n \in 1..Len(files) |->
                [filePath |-> files[n].filePath, ranges |-> RangesIn(files[n])]]
  IN [commitId |-> commitId,
      fileChanges |-> SelectSeq(all, LAMBDA fc : Len(fc.ranges) > 0)]

\* the hunks of the commits that are split: as git prints them, with unchanged
\* lines around the changes, so that git apply can place them
AssembleShapeAdd == [body |-> <<Ctx("a"), Add("b"), Add("c"), Ctx("a")>>, label |-> "", bad |-> FALSE]
AssembleShapeDel == [body |-> <<Ctx("a"), Del("b"), Del("c"), Ctx("a")>>, label |-> "", bad |-> FALSE]
AssembleShapes ==
  {LineShapeRepl, AssembleShapeAdd, AssembleShapeDel, LineShapeBad, LineShapeBlank}

AssembleFileChanges(path, n) ==
  {[path |-> path, isNew |-> FALSE, hunks |-> hs] : hs \in [1..n -> AssembleShapes]}
    \cup (IF n = 1 THEN {[path |-> path, isNew |-> TRUE, hunks |-> <<LineShapeNew>>]} ELSE {})

RECURSIVE AssembleChangesFrom(_, _)
AssembleChangesFrom(fileNo, hunksLeft) ==
  IF fileNo > MaxFiles \/ hunksLeft = 0 THEN {<<>>}
  ELSE {<<>>} \cup
       UNION {{<<fc>> \o rest : fc \in AssembleFileChanges(Paths[fileNo], n),
                                rest \in AssembleChangesFrom(fileNo + 1, hunksLeft - n)}
              : n \in 1..hunksLeft}

AssembleChanges == AssembleChangesFrom(1, MaxLineHunks) \ {<<>>}

AssembleInit ==
  /\ \E change \in AssembleChanges :
       LET files == parseDiffIntoHunks(GitShow(change))
       IN \E g1 \in RangeAssignments(files), g2 \in RangeAssignments(files) :
            assembleArgs = [diff |-> GitShow(change),
                            parent |-> ParentTree(change),
                            commit |-> CommitTree(change),
                            commitChanges |-> <<CommitChangesOf(files, CommitIds[1], g1),
                                                CommitChangesOf(files, CommitIds[2], g2)>>]
  /\ assembleOut = <<>>
  /\ assemblePc = "lineLevelSplit"
  /\ assembleLog = <<>>
  /\ AssembleOthersIdle

\* lineLevelSplit, phase 4: the patches are assembled and validated; an
\* invalid patch is reported and the plan is returned all the same
LineLevelSplit ==
  /\ assemblePc = "lineLevelSplit"
  /\ assembleOut' = buildPatches(parseDiffIntoHunks(assembleArgs.diff),
                                 assembleArgs.commitChanges)
  /\ assemblePc' = "planned"
  /\ UNCHANGED <<assembleArgs, assembleLog>>
  /\ UNCHANGED assembleOthers

GitCommand(cmd, content) == [cmd |-> cmd, tree |-> content]

\* the work tree the commands have left
WorkTree == IF Len(assembleLog) = 0 THEN assembleArgs.commit
            ELSE assembleLog[Len(assembleLog)].tree

\* splitCommitLineLevel hands the plan to executeSplit, which resets (a run
\* that is not a dry run, on a clean work tree, with the prompt confirmed)
SplitCommitLineLevel ==
  /\ assemblePc = "planned"
  /\ IF Len(assembleOut) < 2
     THEN /\ assemblePc' = "returned true"
          /\ assembleLog' = assembleLog
     ELSE /\ assemblePc' = "applying"
          /\ assembleLog' = Append(assembleLog, GitCommand("reset", assembleArgs.parent))
  /\ UNCHANGED <<assembleArgs, assembleOut>>
  /\ UNCHANGED assembleOthers

CommitsMade == Cardinality({n \in 1..Len(assembleLog) : assembleLog[n].cmd = "commit"})

\* executeSplit: one turn of the loop
AssembleApply ==
  /\ assemblePc = "applying"
  /\ LET n == CommitsMade + 1
         applied == GitApply(WorkTree, assembleOut[n].patch)
     IN IF ~applied.ok \/ applied.tree = WorkTree
        THEN /\ assemblePc' = "returned false"
             /\ assembleLog' = Append(assembleLog, GitCommand("apply --check", WorkTree))
        ELSE /\ assembleLog' = Append(assembleLog, GitCommand("commit", applied.tree))
             /\ assemblePc' = IF n = Len(assembleOut) THEN "returned true" ELSE "applying"
  /\ UNCHANGED <<assembleArgs, assembleOut>>
  /\ UNCHANGED assembleOthers

AssembleNext == LineLevelSplit \/ SplitCommitLineLevel \/ AssembleApply

SpecAssemble == AssembleInit /\ [][AssembleNext]_vars

AssembleFiles == parseDiffIntoHunks(assembleArgs.diff)

\* the paths of the diff whose file header creates the file
NewFilePaths ==
  {AssembleFiles[f].filePath : f \in {n \in 1..Len(AssembleFiles) :
      IsCreationHeader(AssembleFiles[n].fileHeader)}}

\* the patches of the plan that carry a file patch for the path, in plan order
PatchesTouching(path) ==
  SortedSeq({n \in 1..Len(assembleOut) : HeaderIn(assembleOut[n].patch, path) # <<>>})

\* C22: when the lines of a new file go to two or more commits, the first
\* patch that touches the file has the creation header and every later one
\* has the modification header '--- a/<path>'
C22_CreationHeaderOnce ==
  assemblePc # "lineLevelSplit" =>
    \A path \in NewFilePaths :
      LET touching == PatchesTouching(path)
      IN Len(touching) >= 2 =>
           /\ IsCreationHeader(HeaderIn(assembleOut[touching[1]].patch, path))
           /\ \A n \in 2..Len(touching) :
                IsModificationHeader(HeaderIn(assembleOut[touching[n]].patch, path), path)

\* the net deltas of the hunks before hunk j, as their emitted headers count them
RunningDelta(hunks, j) ==
  Sum([i \in 1..(j - 1) |-> hunks[i].header.nc - hunks[i].header.oc], 1..(j - 1))

\* C23: every hunk of an assembled patch keeps an old-start of the original
\* file's hunks and has new-start = old-start + the net delta of the hunks of
\* the same file emitted before it in that patch (stated for hunks with lines
\* on both sides, where a start names a line)
C23_NewStartIsRunningDelta ==
  assemblePc # "lineLevelSplit" =>
    \A n \in 1..Len(assembleOut) :
      LET emitted == parseDiffIntoHunks(assembleOut[n].patch)
      IN \A f \in 1..Len(emitted) : \A j \in 1..Len(emitted[f].hunks) :
           LET header == emitted[f].hunks[j].header
           IN (header.k = "@@" /\ header.oc > 0 /\ header.nc > 0) =>
                /\ \E h \in 1..Len(HunksIn(assembleArgs.diff, emitted[f].filePath)) :
                     HunksIn(assembleArgs.diff, emitted[f].filePath)[h].header.os = header.os
                /\ header.ns = header.os + RunningDelta(emitted[f].hunks, j)

\* ------------------------------------------ generateUnifiedDiff, longer texts
\* An old text of WideLines different lines; the new text keeps, replaces or
\* deletes each of them or adds a line after it, so that changes lie up to
\* WideLines - 2 lines apart.
WideLines == 7
WideContext == 2
WideOld == [n \in 1..WideLines |-> ToString(n)]

WideNew(edit) ==
  Flatten([n \in 1..WideLines |->
             CASE edit[n] = "keep" -> <<WideOld[n]>>
               [] edit[n] = "replace" -> <<"x">>
               [] edit[n] = "insert" -> <<WideOld[n], "x">>
               [] OTHER -> <<>>])

SynthWideInit ==
  /\ \E edit \in [1..WideLines -> {"keep", "replace", "insert", "delete"}],
        contextLines \in 0..WideContext :
       /\ WideNew(edit) # <<>>
       /\ synthArgs = [filePath |-> Paths[1], oldContent |-> WideOld,
                       newContent |-> WideNew(edit), isNewFile |-> FALSE,
                       contextLines |-> contextLines]
  /\ synthOut = <<>>
  /\ SynthOthersIdle

SpecSynthWide == SynthWideInit /\ [][SynthNext]_vars

\* the hunks of the returned patch: header and body
SynthHunks == IF Len(synthOut) = 0 THEN <<>> ELSE HunksIn(synthOut[1], synthArgs.filePath)

SynthOps == computeLineDiff(synthArgs.oldContent, synthArgs.newContent)

\* the runs of unchanged lines that lie between two changes and are longer
\* than twice the context
WideGaps ==
  {i \in 1..Len(SynthOps) :
     /\ SynthOps[i].type = "keep"
     /\ i > 1 /\ SynthOps[i - 1].type # "keep"
     /\ \E j \in (i + 1)..Len(SynthOps) :
          /\ SynthOps[j].type # "keep"
          /\ \A m \in i..(j - 1) : SynthOps[m].type = "keep"
          /\ j - i > 2 * synthArgs.contextLines}

OldRange(header) == IF header.oc = 0 THEN {} ELSE header.os..(header.os + header.oc - 1)
NewRange(header) == IF header.nc = 0 THEN {} ELSE header.ns..(header.ns + header.nc - 1)

\* C24: every hunk of generateUnifiedDiff has at most contextLines unchanged
\* lines before its first change and after its last one, two changes with at
\* most 2 * contextLines unchanged lines between them are in one hunk, and
\* consecutive hunks share no line
C24_HunkContext ==
  Len(synthOut) = 1 =>
    /\ \A h \in 1..Len(SynthHunks) :
         /\ LeadingContext(BodyOf(SynthHunks[h].content)) <= synthArgs.contextLines
         /\ TrailingContext(BodyOf(SynthHunks[h].content)) <= synthArgs.contextLines
    /\ (Len(SynthHunks) > 0 => Len(SynthHunks) = 1 + Cardinality(WideGaps))
    /\ \A h \in 1..Len(SynthHunks) : \A g \in 1..Len(SynthHunks) :
         h < g =>
           /\ \A a \in OldRange(SynthHunks[h].header), b \in OldRange(SynthHunks[g].header) :
                a < b
           /\ \A a \in NewRange(SynthHunks[h].header), b \in NewRange(SynthHunks[g].header) :
                a < b

\* a call with one line of context whose changes lie three and one unchanged
\* lines apart: two hunks, the second with both of the closer changes
C24_Witness ==
  /\ Len(synthOut) = 1
  /\ synthArgs.contextLines = 1
  /\ synthArgs.oldContent = WideOld
  /\ synthArgs.newContent = <<"x", "2", "3", "4", "x", "6">>
  /\ Len(SynthHunks) = 2
  /\ Len(LinesOfKind(SynthHunks[2].content, {"+", "-"})) = 3

SomePatchInvalid ==
  \E n \in 1..Len(assembleOut) : ~validatePatch(assembleOut[n].patch)

\* C25: when a patch assembled by lineLevelSplit fails validatePatch, the
\* split is reported as failed and executeSplit never runs git reset --hard
C25_InvalidPatchStopsSplit ==
  (assemblePc # "lineLevelSplit" /\ SomePatchInvalid) =>
    /\ \A n \in 1..Len(assembleLog) : assembleLog[n].cmd # "reset"
    /\ assemblePc # "returned true"

\* the hunks of a file that a call emits: those with a matching header and a
\* selected line, in the file's order
KeptHunks(parsed, file, lineIds) ==
  SelectSeq([h \in 1..Len(file.hunks) |-> h],
            LAMBDA h : /\ HeaderMatches(file.hunks[h].header)
                       /\ SelectedLineIdxs(parsed, lineIds, file.filePath, h) # {})

C26_Witness ==
  LET parsed == LineParsed
  IN \E c \in 1..Len(calls), f \in 1..Len(parsed.files) :
       LET file == parsed.files[f]
           emitted == HunksIn(calls[c].patch, file.filePath)
       IN /\ Len(file.hunks) = 2 /\ Len(emitted) = 2
          /\ \E l, m \in 1..Len(file.hunks[1].content) :
               /\ file.hunks[1].content[l].k = "-" /\ emitted[1].content[l].k = "-"
               /\ file.hunks[1].content[m].k = "-" /\ emitted[1].content[m].k = " "
          /\ Len(BodyOf(emitted[2].content)) < Len(BodyOf(file.hunks[2].content))

OpsOfType(ops, types) == SelectSeq(ops, LAMBDA op : op.type \in types)

\* C27: the operations of computeLineDiff spell the old lines with their keeps
\* and removals and the new lines with their keeps and additions, the kept
\* pairs rise in both indices, and between two keeps every removal comes
\* before every addition
C27_EditScriptFaithful ==
  Len(synthOut) = 1 =>
    LET ops == SynthOps
        oldOps == OpsOfType(ops, {"keep", "remove"})
        newOps == OpsOfType(ops, {"keep", "add"})
        keeps == OpsOfType(ops, {"keep"})
    IN /\ [n \in 1..Len(oldOps) |-> oldOps[n].line] = synthArgs.oldContent
       /\ [n \in 1..Len(newOps) |-> newOps[n].line] = synthArgs.newContent
       /\ \A n \in 1..Len(oldOps) : oldOps[n].oldIdx = n - 1
       /\ \A n \in 1..Len(newOps) : newOps[n].newIdx = n - 1
       /\ \A n \in 1..Len(keeps) : \A m \in 1..Len(keeps) :
            n < m => keeps[n].oldIdx < keeps[m].oldIdx /\ keeps[n].newIdx < keeps[m].newIdx
       /\ \A i \in 1..Len(ops) : \A j \in 1..Len(ops) :
            (i < j /\ ops[i].type = "add" /\ ops[j].type = "remove")
              => \E m \in i..j : ops[m].type = "keep"

\* a call whose script has two kept pairs and, between them, a removal
\* followed by an addition
C27_Witness ==
  /\ Len(synthOut) = 1
  /\ synthArgs.oldContent = <<"a", "b", "a">>
  /\ synthArgs.newContent = <<"a", "", "a">>
  /\ [n \in 1..Len(SynthOps) |-> SynthOps[n].type] = <<"keep", "remove", "add", "keep">>

\* executeSplit is about to be called, or has run a git command
ExecuteSplitCalled == retryPc = "executeSplit" \/ gitLog # <<>>

LatestAnswer == requests[Len(requests)].answer

\* C28: executeSplit is only called with the plan of the latest attempt, every
\* patch of which passed validateAndFixPatch with no error, and the patch
\* texts handed over are the fixed texts; a null plan or a plan with a
\* validation error is never executed
C28_OnlyValidatedPlanExecuted ==
  ExecuteSplitCalled =>
    /\ Len(requests) >= 1
    /\ LatestAnswer.ok /\ Len(LatestAnswer.splits) >= 2
    /\ \A i \in 1..Len(LatestAnswer.splits) :
         validateAndFixPatch(LatestAnswer.splits[i], i - 1).errors = <<>>
    /\ retryPlan.ok
    /\ retryPlan.splits = [i \in 1..Len(LatestAnswer.splits) |->
                             validateAndFixPatch(LatestAnswer.splits[i], i - 1).fixed]

\* after a plan with an invalid patch, a plan whose patches validate and one
\* of which is changed by the fix is executed to the end
C28_Witness ==
  /\ Len(requests) = 2
  /\ requests[1].answer.ok /\ ~AllValidate(requests[1].answer)
  /\ AllValidate(LatestAnswer)
  /\ retryPlan.splits # LatestAnswer.splits
  /\ retryPc = "returned true"
  /\ Len(gitLog) > 0 /\ gitLog[Len(gitLog)] = "log"

\* the changed lines a commit's patch emits as '+' or '-': for each hunk the
\* commit pushes, the selected indices that are still free and hold a change
RECURSIVE EmittedOfFile(_, _, _, _)
EmittedOfFile(file, fileChange, i, usedIndicesByHunk) ==
  IF i > Len(file.hunks) THEN {}
  ELSE LET hunk == file.hunks[i]
           selectedIndices == StillSelected(fileChange, hunk.id, usedIndicesByHunk)
           pushed == /\ HasRanges(fileChange, hunk.id)
                     /\ filterHunk(hunk, selectedIndices).hasChanges
       IN (IF pushed
           THEN {<<hunk.id, idx>> : idx \in selectedIndices \cap ChangedIdx(hunk)}
           ELSE {})
            \cup EmittedOfFile(file, fileChange, i + 1,
                               IF pushed THEN MarkUsed(usedIndicesByHunk, hunk.id, selectedIndices)
                               ELSE usedIndicesByHunk)

EmittedBy(files, commitChanges, n) ==
  LET fileChanges == commitChanges[n].fileChanges
  IN UNION {EmittedOfFile(files[CHOOSE f \in 1..Len(files) :
                                  files[f].filePath = fileChanges[j].filePath],
                          fileChanges[j], 1, UsedAfter(files, commitChanges, n - 1))
            : j \in 1..Len(fileChanges)}

\* the number of '+' and '-' lines of a patch text
ChangedCount(patch) == Len(LinesOfKind(patch, {"+", "-"}))

\* C29: whatever the ranges of the commits, overlapping ones too, no line
\* index of a hunk is emitted as '+' or '-' in the patches of two commits: an
\* index an earlier commit used counts as not selected for a later one
C29_NoLineEmittedTwice ==
  assemblePc # "lineLevelSplit" =>
    /\ \A n \in 1..Len(assembleOut) :
         ChangedCount(assembleOut[n].patch)
           = Cardinality(EmittedBy(AssembleFiles, assembleArgs.commitChanges, n))
    /\ \A n \in 1..Len(assembleOut) : \A m \in 1..Len(assembleOut) :
         n # m => EmittedBy(AssembleFiles, assembleArgs.commitChanges, n)
                    \cap EmittedBy(AssembleFiles, assembleArgs.commitChanges, m) = {}
    /\ LET total == Sum([n \in 1..Len(assembleOut) |-> ChangedCount(assembleOut[n].patch)],
                        1..Len(assembleOut))
           all == UNION {EmittedBy(AssembleFiles, assembleArgs.commitChanges, n)
                         : n \in 1..Len(assembleOut)}
       IN total = Cardinality(all)

\* the ranges of the two commits overlap in the first hunk, the second commit
\* selects a line more: both patches emit changes, the second only what the
\* first left
C29_Witness ==
  /\ assemblePc = "planned"
  /\ Len(AssembleFiles) = 1 /\ Len(AssembleFiles[1].hunks) = 2
  /\ \A n \in 1..2 :
       /\ Len(assembleArgs.commitChanges[n].fileChanges) = 1
       /\ SelectedOf(assembleArgs.commitChanges[n].fileChanges[1], 0) # {}
  /\ SelectedOf(assembleArgs.commitChanges[1].fileChanges[1], 0)
       \cap SelectedOf(assembleArgs.commitChanges[2].fileChanges[1], 0) # {}
  /\ SelectedOf(assembleArgs.commitChanges[2].fileChanges[1], 0)
       \ SelectedOf(assembleArgs.commitChanges[1].fileChanges[1], 0) # {}
  /\ ChangedCount(assembleOut[1].patch) >= 1
  /\ ChangedCount(assembleOut[2].patch) >= 1

\* the indices of a hunk that commit n selects
SelectedIn(n, hunk) ==
  LET fileChanges == assembleArgs.commitChanges[n].fileChanges
  IN UNION {SelectedOf(fileChanges[j], hunk.id) :
              j \in {i \in 1..Len(fileChanges) : fileChanges[i].filePath = hunk.filePath}}

\* every changed line of the diff is selected by exactly one commit, every
\* commit selects a line, every hunk header of the diff parses, and the diff
\* itself takes the parent's content to the commit's
LinesPartitioned ==
  LET hunks == AllHunks(AssembleFiles)
      commits == 1..Len(assembleArgs.commitChanges)
  IN /\ \A h \in 1..Len(hunks) : \A idx \in ChangedIdx(hunks[h]) :
          Cardinality({n \in commits : idx \in SelectedIn(n, hunks[h])}) = 1
     /\ \A n \in commits : \E h \in 1..Len(hunks) : SelectedIn(n, hunks[h]) # {}
     /\ \A i \in 1..Len(assembleArgs.diff) : assembleArgs.diff[i].k # "@@bad"
     /\ GitApply(assembleArgs.parent, PlusNewline(assembleArgs.diff))
          = [ok |-> TRUE, tree |-> assembleArgs.commit]

\* C30: when the changed lines are divided among the commits, applying the
\* patches of buildPatches in commit order to the parent's content succeeds at
\* every step and ends with the content of the original commit, also when the
\* lines of one hunk or of one new file go to different commits
C30_PatchesComposeToCommit ==
  (LinesPartitioned /\ assemblePc \in {"returned true", "returned false"}) =>
    /\ assemblePc = "returned true"
    /\ WorkTree = assembleArgs.commit

\* the same for the assignments that give every hunk whole to one commit
C30_WholeHunks ==
  (/\ LinesPartitioned
   /\ \A h \in 1..Len(AllHunks(AssembleFiles)) : \E n \in 1..Len(assembleArgs.commitChanges) :
        ChangedIdx(AllHunks(AssembleFiles)[h]) \subseteq SelectedIn(n, AllHunks(AssembleFiles)[h])
   /\ assemblePc \in {"returned true", "returned false"}) =>
    /\ assemblePc = "returned true"
    /\ WorkTree = assembleArgs.commit

====
